---- MODULE Spec2Model ----
(***************************************************************************)
(* A model of ht (headless terminal): the Session (VT, stream clock,       *)
(* broadcast fan-out), the subscription stream, the event hub that owns    *)
(* the Session, and the JSON command parser.                               *)
(*                                                                         *)
(* Time is counted in integer clock ticks.  The VT engine (avt) and the    *)
(* tokio channels are libraries; they are modelled by what the calls made  *)
(* in the source do: a VT is its size, its modes and the data it has       *)
(* consumed; a broadcast channel is the sequence of everything sent on it, *)
(* of which a receiver can still read the last Capacity values.            *)
(***************************************************************************)
EXTENDS Integers, Sequences, FiniteSets, TLC

(***************************************************************************)
(* Bounds of the model.                                                    *)
(***************************************************************************)
\* Session calls (output, resize, snapshot) the hub makes in one run.
MaxSteps == 3
\* The clock stops advancing at this tick.
MaxTime == 1
\* Capacity of the broadcast channel: broadcast::channel(1024) in
\* Session::new, scaled down so that a subscriber can fall behind it.
Capacity == 1

\* Lines on standard input in one run.
MaxLines == 3

\* How many chunks of output the child writes to its terminal.
MaxOutputs == 1

\* Capacity of the command channel and of the PTY input channel (1024 each),
\* scaled down so that a sender can find them full.
CommandCap == 1

InputCap == 1

\* Capacity of the channel of output bytes (1024 in the program).
OutputCap == 1

\* Chunks the child writes while the hub is busy with input: one more than
\* the output channel holds.
ChildChunks == OutputCap + 1

\* Capacity of the client channel.
ClientCap == 1

\* Spec follows one subscriber against a running clock; SpecFanout follows
\* two subscribers within one tick of the clock.
Subscribers == {"A"}
FanoutSubscribers == {"A", "B"}
InitSizes == {<<3, 2>>}
ResizeSizes == {<<3, 2>>, <<5, 4>>}
FanoutResizeSizes == {<<5, 4>>}
Pids == {7}

(***************************************************************************)
(* Child output.  Three kinds of data matter to the Session: printable     *)
(* text, the DECCKM sequence that turns cursor-key application mode on,    *)
(* and the XTWINOPS sequence CSI 8 ; rows ; cols t, which resizes a VT     *)
(* built with resizable(true) and is ignored by any other VT.              *)
(***************************************************************************)
TEXT == "hi"
DECCKM_SET == "\\x1b[?1h"
DECCKM_RST == "\\x1b[?1l"
XTWINOPS == "\\x1b[8;1;1t"
XtSize == <<1, 1>>
Data == {TEXT, XTWINOPS}
ModeData == {TEXT, DECCKM_SET, DECCKM_RST}

IsText(d) == d = TEXT

(***************************************************************************)
(* avt::Vt as the Session uses it.                                         *)
(***************************************************************************)
vt_feed_str(vt, data) ==
    LET fed == [vt EXCEPT !.fed = Append(@, data)]
    IN  CASE data = DECCKM_SET -> [fed EXCEPT !.app = TRUE]
          [] data = DECCKM_RST -> [fed EXCEPT !.app = FALSE]
          [] data = XTWINOPS ->
                IF vt.resizable
                THEN [fed EXCEPT !.cols = XtSize[1], !.rows = XtSize[2]]
                ELSE fed
          [] OTHER -> fed

vt_size(vt) == <<vt.cols, vt.rows>>

\* The replayable init sequence: the data that rebuilds the screen.
vt_dump(vt) == vt.fed

build_vt_resizable(cols, rows) ==
    [cols |-> cols, rows |-> rows, fed |-> <<>>, app |-> FALSE, resizable |-> TRUE]

build_vt(cols, rows) ==
    [cols |-> cols, rows |-> rows, fed |-> <<>>, app |-> FALSE, resizable |-> FALSE]

\* The resize of vt.rs fed to the Session's VT: XTWINOPS on a VT that is
\* not resizable changes nothing.
resize_vt_by_seq(vt, cols, rows) == vt

resize_vt(vt, cols, rows) == [vt EXCEPT !.cols = cols, !.rows = rows]

(***************************************************************************)
(* Events.                                                                 *)
(***************************************************************************)
NoEvent == [type |-> "None"]

EvInit(time, cols, rows, pid, seq, text) ==
    [type |-> "Init", time |-> time, cols |-> cols, rows |-> rows,
     pid |-> pid, seq |-> seq, text |-> text]

EvOutput(time, data) == [type |-> "Output", time |-> time, data |-> data]

EvResize(time, cols, rows) ==
    [type |-> "Resize", time |-> time, cols |-> cols, rows |-> rows]

EvSnapshot(cols, rows, seq, text) ==
    [type |-> "Snapshot", cols |-> cols, rows |-> rows, seq |-> seq, text |-> text]

(***************************************************************************)
(* tokio::sync::broadcast.  The channel is the sequence of all values      *)
(* sent; a receiver is the number of values sent before the one it reads   *)
(* next.  send never blocks and never fails the Session (let _ = ...).     *)
(***************************************************************************)
bc_send(ch, ev) == Append(ch, ev)

bc_subscribe(ch) == Len(ch)

bc_recv(rx, ch, closed) ==
    IF Len(ch) - rx > Capacity
    THEN [res |-> "Lagged", rx |-> Len(ch) - Capacity,
          ev |-> [type |-> "Lagged", n |-> Len(ch) - Capacity - rx], idx |-> 0]
    ELSE IF rx < Len(ch)
    THEN [res |-> "Ok", rx |-> rx + 1, ev |-> ch[rx + 1], idx |-> rx + 1]
    ELSE [res |-> IF closed THEN "Closed" ELSE "Empty", rx |-> rx,
          ev |-> NoEvent, idx |-> 0]

(***************************************************************************)
(* Session.  t1 and t2 are the two readings of the clock that output and   *)
(* resize take: one for the event time, one for last_event_time.           *)
(***************************************************************************)
Session_new(cols, rows, pid, t) ==
    [vt |-> build_vt(cols, rows), broadcast_tx |-> <<>>, stream_time |-> 0,
     start_time |-> t, last_event_time |-> t, pid |-> pid]

text_view(S) == SelectSeq(S.vt.fed, IsText)

\* The time since the start of the Session is added to stream_time.
elapsed_time_since_start(S, t) == S.stream_time + (t - S.start_time)

elapsed_time(S, t) == S.stream_time + (t - S.last_event_time)

Session_output_no_feed(S, data, t1, t2) ==
    LET time == t1 - S.start_time
    IN  [S EXCEPT !.broadcast_tx = bc_send(@, EvOutput(time, data)),
                  !.stream_time = time,
                  !.last_event_time = t2]

Session_output_delta_time(S, data, t1, t2) ==
    LET time == t1 - S.last_event_time
    IN  [S EXCEPT !.vt = vt_feed_str(@, data),
                  !.broadcast_tx = bc_send(@, EvOutput(time, data)),
                  !.stream_time = time,
                  !.last_event_time = t2]

Session_output(S, data, t1, t2) ==
    LET time == t1 - S.start_time
    IN  [S EXCEPT !.vt = vt_feed_str(@, data),
                  !.broadcast_tx = bc_send(@, EvOutput(time, data)),
                  !.stream_time = time,
                  !.last_event_time = t2]

Session_resize_swapped(S, cols, rows, t1, t2) ==
    LET time == t1 - S.start_time
    IN  [S EXCEPT !.vt = resize_vt(@, rows, cols),
                  !.broadcast_tx = bc_send(@, EvResize(time, cols, rows)),
                  !.stream_time = time,
                  !.last_event_time = t2]

\* The resize restarts the clock of elapsed_time without recording its time.
Session_resize_time_kept(S, cols, rows, t1, t2) ==
    LET time == t1 - S.start_time
    IN  [S EXCEPT !.vt = resize_vt(@, cols, rows),
                  !.broadcast_tx = bc_send(@, EvResize(time, cols, rows)),
                  !.last_event_time = t2]

Session_resize(S, cols, rows, t1, t2) ==
    LET time == t1 - S.start_time
    IN  [S EXCEPT !.vt = resize_vt(@, cols, rows),
                  !.broadcast_tx = bc_send(@, EvResize(time, cols, rows)),
                  !.stream_time = time,
                  !.last_event_time = t2]

\* The view goes to the requester alone; nothing is broadcast.
Session_snapshot_reply_only(S) == S

\* The Snapshot overtakes the event broadcast last.
Session_snapshot_unordered(S) ==
    LET size == vt_size(S.vt)
        ev == EvSnapshot(size[1], size[2], vt_dump(S.vt), text_view(S))
        ch == S.broadcast_tx
    IN  [S EXCEPT !.broadcast_tx =
            IF ch = <<>> THEN <<ev>>
            ELSE SubSeq(ch, 1, Len(ch) - 1) \o <<ev, ch[Len(ch)]>>]

\* Taking the dump empties the screen of the VT.
Session_snapshot_drains(S) ==
    LET size == vt_size(S.vt)
    IN  [S EXCEPT !.broadcast_tx =
            bc_send(@, EvSnapshot(size[1], size[2], vt_dump(S.vt), text_view(S))),
                  !.vt.fed = <<>>]

Session_snapshot(S) ==
    LET size == vt_size(S.vt)
    IN  [S EXCEPT !.broadcast_tx =
            bc_send(@, EvSnapshot(size[1], size[2], vt_dump(S.vt), text_view(S)))]

Session_cursor_key_app_mode(S) == S.vt.app

\* The receiver starts at the oldest value the channel still holds.
Session_subscribe_replay(S, t) ==
    LET size == vt_size(S.vt)
        sent == Len(S.broadcast_tx)
    IN  [init |-> EvInit(elapsed_time(S, t), size[1], size[2], S.pid,
                         vt_dump(S.vt), text_view(S)),
         broadcast_rx |-> IF sent > Capacity THEN sent - Capacity ELSE 0]

\* A Subscription: the Init event and a receiver at the tail of the channel.
Session_subscribe(S, t) ==
    LET size == vt_size(S.vt)
    IN  [init |-> EvInit(elapsed_time(S, t), size[1], size[2], S.pid,
                         vt_dump(S.vt), text_view(S)),
         broadcast_rx |-> bc_subscribe(S.broadcast_tx)]

(***************************************************************************)
(* session::stream: init.chain(events).  A stream is the Subscription and  *)
(* whether its Init is still to be yielded; stream_poll is one poll of it. *)
(***************************************************************************)
NoStream == [init |-> NoEvent, init_pending |-> FALSE, broadcast_rx |-> 0]

stream_new(subscription) ==
    [init |-> subscription.init, init_pending |-> TRUE,
     broadcast_rx |-> subscription.broadcast_rx]

\* events.chain(init): the Init comes when the broadcast has ended.
stream_poll_events_first(st, ch, closed) ==
    LET r == bc_recv(st.broadcast_rx, ch, closed)
    IN  IF r.res = "Closed" /\ st.init_pending
        THEN [res |-> "Ok", ev |-> st.init, idx |-> 0,
              st |-> [st EXCEPT !.init_pending = FALSE]]
        ELSE [res |-> r.res, ev |-> r.ev, idx |-> r.idx,
              st |-> [st EXCEPT !.broadcast_rx = r.rx]]

\* The lag error is swallowed: the stream goes on with the oldest value held.
stream_poll_drop_lag(st, ch, closed) ==
    IF st.init_pending
    THEN [res |-> "Ok", ev |-> st.init, idx |-> 0,
          st |-> [st EXCEPT !.init_pending = FALSE]]
    ELSE LET r == bc_recv(st.broadcast_rx, ch, closed)
             r2 == IF r.res = "Lagged" THEN bc_recv(r.rx, ch, closed) ELSE r
         IN  [res |-> r2.res, ev |-> r2.ev, idx |-> r2.idx,
              st |-> [st EXCEPT !.broadcast_rx = r2.rx]]

stream_poll(st, ch, closed) ==
    IF st.init_pending
    THEN [res |-> "Ok", ev |-> st.init, idx |-> 0,
          st |-> [st EXCEPT !.init_pending = FALSE]]
    ELSE LET r == bc_recv(st.broadcast_rx, ch, closed)
         IN  [res |-> r.res, ev |-> r.ev, idx |-> r.idx,
              st |-> [st EXCEPT !.broadcast_rx = r.rx]]

(***************************************************************************)
(* JSON values (serde_json::Value).  An object is the function from the    *)
(* field names the parser looks at to their values, Absent where the       *)
(* object has no such field; fields the parser never looks at are ignored  *)
(* by serde and left out.  A number is an integer or, as JFloat, a number  *)
(* with a fraction.  A line that is not JSON at all is Malformed.          *)
(***************************************************************************)
Absent == [t |-> "absent"]

Null == [t |-> "null"]

JStr(s) == [t |-> "str", v |-> s]

JNum(n) == [t |-> "num", v |-> n]

JFloat == [t |-> "float"]

JArr(a) == [t |-> "arr", v |-> a]

JObj(f) == [t |-> "obj", f |-> f]

Malformed == [t |-> "malformed"]

None == [some |-> FALSE]

Some(x) == [some |-> TRUE, v |-> x]

Ok(x) == [ok |-> TRUE, v |-> x]

Err(e) == [ok |-> FALSE, err |-> e]

\* value[key]: Null when the value is no object or has no such field.
Index(value, key) ==
    IF value.t = "obj" /\ value.f[key] # Absent THEN value.f[key] ELSE Null

as_str(value) == IF value.t = "str" THEN Some(value.v) ELSE None

\* Deserialize of a String, a usize and a Vec<String> field of an args struct.
\* The integers of the model are all below usize::MAX.
de_String(value) ==
    CASE value = Absent -> Err("missing field")
      [] value.t = "str" -> Ok(value.v)
      [] OTHER -> Err("invalid type")

de_usize(value) ==
    CASE value = Absent -> Err("missing field")
      [] value.t = "num" -> IF value.v >= 0 THEN Ok(value.v) ELSE Err("invalid value")
      [] OTHER -> Err("invalid type")

de_Vec_String(value) ==
    CASE value = Absent -> Err("missing field")
      [] value.t = "arr" ->
            IF \A i \in 1..Len(value.v) : value.v[i].t = "str"
            THEN Ok([i \in 1..Len(value.v) |-> value.v[i].v])
            ELSE Err("invalid type")
      [] OTHER -> Err("invalid type")

\* args_from_json_value::<InputArgs>, ::<SendKeysArgs> and ::<ResizeArgs>.
InputArgs(value) ==
    LET payload == de_String(value.f.payload)
    IN  IF payload.ok THEN Ok([payload |-> payload.v]) ELSE payload

SendKeysArgs(value) ==
    LET keys == de_Vec_String(value.f.keys)
    IN  IF keys.ok THEN Ok([keys |-> keys.v]) ELSE keys

ResizeArgs(value) ==
    LET cols == de_usize(value.f.cols)
        rows == de_usize(value.f.rows)
    IN  CASE ~cols.ok -> cols
          [] ~rows.ok -> rows
          [] OTHER -> Ok([cols |-> cols.v, rows |-> rows.v])

(***************************************************************************)
(* Commands and key names.  Bytes outside printable ASCII are written as   *)
(* the four characters \xNN.                                               *)
(***************************************************************************)
Input(seqs) == [cmd |-> "Input", seqs |-> seqs]

GetView == [cmd |-> "GetView"]

Resize(cols, rows) == [cmd |-> "Resize", cols |-> cols, rows |-> rows]

standard_key(seq) == [kind |-> "Standard", seq |-> seq]

cursor_key(seq1, seq2) == [kind |-> "Cursor", seq1 |-> seq1, seq2 |-> seq2]

LowerCase ==
    <<"a", "b", "c", "d", "e", "f", "g", "h", "i", "j", "k", "l", "m",
      "n", "o", "p", "q", "r", "s", "t", "u", "v", "w", "x", "y", "z">>

UpperCase ==
    <<"A", "B", "C", "D", "E", "F", "G", "H", "I", "J", "K", "L", "M",
      "N", "O", "P", "Q", "R", "S", "T", "U", "V", "W", "X", "Y", "Z">>

ControlChars ==
    <<"\\x01", "\\x02", "\\x03", "\\x04", "\\x05", "\\x06", "\\x07", "\\x08",
      "\\x09", "\\x0a", "\\x0b", "\\x0c", "\\x0d", "\\x0e", "\\x0f", "\\x10",
      "\\x11", "\\x12", "\\x13", "\\x14", "\\x15", "\\x16", "\\x17", "\\x18",
      "\\x19", "\\x1a">>

Range(seq) == {seq[i] : i \in 1..Len(seq)}

\* The single characters a key name is matched against: printable ASCII
\* but the double quote, the backslash and the backtick.
Chars ==
    Range(LowerCase) \cup Range(UpperCase)
        \cup {"0", "1", "2", "3", "4", "5", "6", "7", "8", "9"}
        \cup {" ", "!", "#", "$", "%", "&", "'", "(", ")", "*", "+", ",", "-", ".", "/",
              ":", ";", "<", "=", ">", "?", "@", "[", "]", "^", "_", "{", "|", "}", "~"}

\* k as u8, for a letter: 'a' is 0x61 and 'A' is 0x41.
as_u8(k) ==
    IF k \in Range(LowerCase)
    THEN 96 + (CHOOSE i \in 1..26 : LowerCase[i] = k)
    ELSE 64 + (CHOOSE i \in 1..26 : UpperCase[i] = k)

HexDigits == <<"0", "1", "2", "3", "4", "5", "6", "7", "8", "9", "a", "b", "c", "d", "e", "f">>

\* n as char: the control characters 0x01..0x1a, and any other byte by its
\* two hexadecimal digits.
as_char(n) ==
    IF n \in 1..26 THEN ControlChars[n]
    ELSE "\\x" \o HexDigits[(n \div 16) + 1] \o HexDigits[(n % 16) + 1]

\* a - b in u8, as a build without overflow checks computes it.
u8_sub(a, b) == (a - b) % 256

\* 0x60 is subtracted from upper case letters as well.
parse_key_chars_one_base(key) ==
    LET chars(prefix, K) == {k \in K : key = prefix \o k}
        the(S) == CHOOSE k \in S : TRUE
    IN  CASE chars("C-", Range(LowerCase)) # {} ->
                standard_key(as_char(u8_sub(as_u8(the(chars("C-", Range(LowerCase)))), 96)))
          [] chars("C-", Range(UpperCase)) # {} ->
                standard_key(as_char(u8_sub(as_u8(the(chars("C-", Range(UpperCase)))), 96)))
          [] chars("^", Range(LowerCase)) # {} ->
                standard_key(as_char(u8_sub(as_u8(the(chars("^", Range(LowerCase)))), 96)))
          [] chars("^", Range(UpperCase)) # {} ->
                standard_key(as_char(u8_sub(as_u8(the(chars("^", Range(UpperCase)))), 96)))
          [] chars("A-", Chars) # {} ->
                standard_key("\\x1b" \o the(chars("A-", Chars)))
          [] OTHER -> standard_key(key)

\* The arm k => { match chars.as_slice() ... } of parse_key.
parse_key_chars(key) ==
    LET chars(prefix, K) == {k \in K : key = prefix \o k}
        the(S) == CHOOSE k \in S : TRUE
    IN  CASE chars("C-", Range(LowerCase)) # {} ->
                standard_key(as_char(u8_sub(as_u8(the(chars("C-", Range(LowerCase)))), 96)))
          [] chars("C-", Range(UpperCase)) # {} ->
                standard_key(as_char(u8_sub(as_u8(the(chars("C-", Range(UpperCase)))), 64)))
          [] chars("^", Range(LowerCase)) # {} ->
                standard_key(as_char(u8_sub(as_u8(the(chars("^", Range(LowerCase)))), 96)))
          [] chars("^", Range(UpperCase)) # {} ->
                standard_key(as_char(u8_sub(as_u8(the(chars("^", Range(UpperCase)))), 64)))
          [] chars("A-", Chars) # {} ->
                standard_key("\\x1b" \o the(chars("A-", Chars)))
          [] OTHER -> standard_key(key)

\* The literal arms of the match of parse_key.
parse_key_arms(key) ==
    CASE key \in {"C-@", "C-Space", "^@"} -> standard_key("\\x00")
      [] key \in {"C-[", "Escape", "^["} -> standard_key("\\x1b")
      [] key \in {"C-\\", "^\\"} -> standard_key("\\x1c")
      [] key \in {"C-]", "^]"} -> standard_key("\\x1d")
      [] key \in {"C-^", "C-/"} -> standard_key("\\x1e")
      [] key \in {"C--", "C-_"} -> standard_key("\\x1f")
      [] key = "Tab" -> standard_key("\\x09")
      [] key = "Enter" -> standard_key("\\x0d")
      [] key = "Space" -> standard_key(" ")
      [] key = "Left" -> cursor_key("\\x1b[D", "\\x1bOD")
      [] key = "Right" -> cursor_key("\\x1b[C", "\\x1bOC")
      [] key = "Up" -> cursor_key("\\x1b[A", "\\x1bOA")
      [] key = "Down" -> cursor_key("\\x1b[B", "\\x1bOB")
      [] key = "C-Left" -> standard_key("\\x1b[1;5D")
      [] key = "C-Right" -> standard_key("\\x1b[1;5C")
      [] key = "S-Left" -> standard_key("\\x1b[1;2D")
      [] key = "S-Right" -> standard_key("\\x1b[1;2C")
      [] key = "C-Up" -> standard_key("\\x1b[1;5A")
      [] key = "C-Down" -> standard_key("\\x1b[1;5B")
      [] key = "S-Up" -> standard_key("\\x1b[1;2A")
      [] key = "S-Down" -> standard_key("\\x1b[1;2B")
      [] key = "A-Left" -> standard_key("\\x1b[1;3D")
      [] key = "A-Right" -> standard_key("\\x1b[1;3C")
      [] key = "A-Up" -> standard_key("\\x1b[1;3A")
      [] key = "A-Down" -> standard_key("\\x1b[1;3B")
      [] key \in {"C-S-Left", "S-C-Left"} -> standard_key("\\x1b[1;6D")
      [] key \in {"C-S-Right", "S-C-Right"} -> standard_key("\\x1b[1;6C")
      [] key \in {"C-S-Up", "S-C-Up"} -> standard_key("\\x1b[1;6A")
      [] key \in {"C-S-Down", "S-C-Down"} -> standard_key("\\x1b[1;6B")
      [] key \in {"C-A-Left", "A-C-Left"} -> standard_key("\\x1b[1;7D")
      [] key \in {"C-A-Right", "A-C-Right"} -> standard_key("\\x1b[1;7C")
      [] key \in {"C-A-Up", "A-C-Up"} -> standard_key("\\x1b[1;7A")
      [] key \in {"C-A-Down", "A-C-Down"} -> standard_key("\\x1b[1;7B")
      [] key \in {"A-S-Left", "S-A-Left"} -> standard_key("\\x1b[1;4D")
      [] key \in {"A-S-Right", "S-A-Right"} -> standard_key("\\x1b[1;4C")
      [] key \in {"A-S-Up", "S-A-Up"} -> standard_key("\\x1b[1;4A")
      [] key \in {"A-S-Down", "S-A-Down"} -> standard_key("\\x1b[1;4B")
      [] key \in {"C-A-S-Left", "C-S-A-Left", "A-C-S-Left", "S-C-A-Left", "A-S-C-Left", "S-A-C-Left"} -> standard_key("\\x1b[1;8D")
      [] key \in {"C-A-S-Right", "C-S-A-Right", "A-C-S-Right", "S-C-A-Right", "A-S-C-Right", "S-A-C-Right"} -> standard_key("\\x1b[1;8C")
      [] key \in {"C-A-S-Up", "C-S-A-Up", "A-C-S-Up", "S-C-A-Up", "A-S-C-Up", "S-A-C-Up"} -> standard_key("\\x1b[1;8A")
      [] key \in {"C-A-S-Down", "C-S-A-Down", "A-C-S-Down", "S-C-A-Down", "A-S-C-Down", "S-A-C-Down"} -> standard_key("\\x1b[1;8B")
      [] key = "F1" -> standard_key("\\x1bOP")
      [] key = "F2" -> standard_key("\\x1bOQ")
      [] key = "F3" -> standard_key("\\x1bOR")
      [] key = "F4" -> standard_key("\\x1bOS")
      [] key = "F5" -> standard_key("\\x1b[15~")
      [] key = "F6" -> standard_key("\\x1b[17~")
      [] key = "F7" -> standard_key("\\x1b[18~")
      [] key = "F8" -> standard_key("\\x1b[19~")
      [] key = "F9" -> standard_key("\\x1b[20~")
      [] key = "F10" -> standard_key("\\x1b[21~")
      [] key = "F11" -> standard_key("\\x1b[23~")
      [] key = "F12" -> standard_key("\\x1b[24~")
      [] key = "C-F1" -> standard_key("\\x1b[1;5P")
      [] key = "C-F2" -> standard_key("\\x1b[1;5Q")
      [] key = "C-F3" -> standard_key("\\x1b[1;5R")
      [] key = "C-F4" -> standard_key("\\x1b[1;5S")
      [] key = "C-F5" -> standard_key("\\x1b[15;5~")
      [] key = "C-F6" -> standard_key("\\x1b[17;5~")
      [] key = "C-F7" -> standard_key("\\x1b[18;5~")
      [] key = "C-F8" -> standard_key("\\x1b[19;5~")
      [] key = "C-F9" -> standard_key("\\x1b[20;5~")
      [] key = "C-F10" -> standard_key("\\x1b[21;5~")
      [] key = "C-F11" -> standard_key("\\x1b[23;5~")
      [] key = "C-F12" -> standard_key("\\x1b[24;5~")
      [] key = "S-F1" -> standard_key("\\x1b[1;2P")
      [] key = "S-F2" -> standard_key("\\x1b[1;2Q")
      [] key = "S-F3" -> standard_key("\\x1b[1;2R")
      [] key = "S-F4" -> standard_key("\\x1b[1;2S")
      [] key = "S-F5" -> standard_key("\\x1b[15;2~")
      [] key = "S-F6" -> standard_key("\\x1b[17;2~")
      [] key = "S-F7" -> standard_key("\\x1b[18;2~")
      [] key = "S-F8" -> standard_key("\\x1b[19;2~")
      [] key = "S-F9" -> standard_key("\\x1b[20;2~")
      [] key = "S-F10" -> standard_key("\\x1b[21;2~")
      [] key = "S-F11" -> standard_key("\\x1b[23;2~")
      [] key = "S-F12" -> standard_key("\\x1b[24;2~")
      [] key = "A-F1" -> standard_key("\\x1b[1;3P")
      [] key = "A-F2" -> standard_key("\\x1b[1;3Q")
      [] key = "A-F3" -> standard_key("\\x1b[1;3R")
      [] key = "A-F4" -> standard_key("\\x1b[1;3S")
      [] key = "A-F5" -> standard_key("\\x1b[15;3~")
      [] key = "A-F6" -> standard_key("\\x1b[17;3~")
      [] key = "A-F7" -> standard_key("\\x1b[18;3~")
      [] key = "A-F8" -> standard_key("\\x1b[19;3~")
      [] key = "A-F9" -> standard_key("\\x1b[20;3~")
      [] key = "A-F10" -> standard_key("\\x1b[21;3~")
      [] key = "A-F11" -> standard_key("\\x1b[23;3~")
      [] key = "A-F12" -> standard_key("\\x1b[24;3~")
      [] key = "Home" -> cursor_key("\\x1b[H", "\\x1bOH")
      [] key = "C-Home" -> standard_key("\\x1b[1;5H")
      [] key = "S-Home" -> standard_key("\\x1b[1;2H")
      [] key = "A-Home" -> standard_key("\\x1b[1;3H")
      [] key = "End" -> cursor_key("\\x1b[F", "\\x1bOF")
      [] key = "C-End" -> standard_key("\\x1b[1;5F")
      [] key = "S-End" -> standard_key("\\x1b[1;2F")
      [] key = "A-End" -> standard_key("\\x1b[1;3F")
      [] key = "PageUp" -> standard_key("\\x1b[5~")
      [] key = "C-PageUp" -> standard_key("\\x1b[5;5~")
      [] key = "S-PageUp" -> standard_key("\\x1b[5;2~")
      [] key = "A-PageUp" -> standard_key("\\x1b[5;3~")
      [] key = "PageDown" -> standard_key("\\x1b[6~")
      [] key = "C-PageDown" -> standard_key("\\x1b[6;5~")
      [] key = "S-PageDown" -> standard_key("\\x1b[6;2~")
      [] key = "A-PageDown" -> standard_key("\\x1b[6;3~")
      [] OTHER -> parse_key_chars(key)

\* A cursor key is returned in its normal form alone.
parse_key_cursor_normal(key) ==
    LET seq == parse_key_arms(key)
    IN  IF seq.kind = "Cursor" THEN standard_key(seq.seq1) ELSE seq

\* One ordering of three modifiers is missing from the arms.
parse_key_missing_order(key) ==
    IF key = "S-A-C-Up" THEN parse_key_chars(key) ELSE parse_key_arms(key)

parse_key(key) == parse_key_arms(key)

\* The same arm of the parse_key of api.rs.
api_parse_key_chars(key) ==
    LET chars(prefix, K) == {k \in K : key = prefix \o k}
        the(S) == CHOOSE k \in S : TRUE
    IN  CASE chars("C-", Range(LowerCase)) # {} ->
                standard_key(as_char(u8_sub(as_u8(the(chars("C-", Range(LowerCase)))), 96)))
          [] chars("C-", Range(UpperCase)) # {} ->
                standard_key(as_char(u8_sub(as_u8(the(chars("C-", Range(UpperCase)))), 64)))
          [] chars("^", Range(LowerCase)) # {} ->
                standard_key(as_char(u8_sub(as_u8(the(chars("^", Range(LowerCase)))), 96)))
          [] chars("^", Range(UpperCase)) # {} ->
                standard_key(as_char(u8_sub(as_u8(the(chars("^", Range(UpperCase)))), 64)))
          [] chars("A-", Chars) # {} ->
                standard_key("\\x1b" \o the(chars("A-", Chars)))
          [] OTHER -> standard_key(key)

\* The literal arms of the parse_key of api.rs.
api_parse_key_arms(key) ==
    CASE key \in {"C-@", "C-Space", "^@"} -> standard_key("\\x00")
      [] key \in {"C-[", "Escape", "^["} -> standard_key("\\x1b")
      [] key \in {"C-\\", "^\\"} -> standard_key("\\x1c")
      [] key \in {"C-]", "^]"} -> standard_key("\\x1d")
      [] key \in {"C-^", "C-/"} -> standard_key("\\x1e")
      [] key \in {"C--", "C-_"} -> standard_key("\\x1f")
      [] key = "Tab" -> standard_key("\\x09")
      [] key = "Enter" -> standard_key("\\x0d")
      [] key = "Space" -> standard_key(" ")
      [] key = "Left" -> cursor_key("\\x1b[D", "\\x1bOD")
      [] key = "Right" -> cursor_key("\\x1b[C", "\\x1bOC")
      [] key = "Up" -> cursor_key("\\x1b[A", "\\x1bOA")
      [] key = "Down" -> cursor_key("\\x1b[B", "\\x1bOB")
      [] key = "C-Left" -> standard_key("\\x1b[1;5D")
      [] key = "C-Right" -> standard_key("\\x1b[1;5C")
      [] key = "S-Left" -> standard_key("\\x1b[1;2D")
      [] key = "S-Right" -> standard_key("\\x1b[1;2C")
      [] key = "C-Up" -> standard_key("\\x1b[1;5A")
      [] key = "C-Down" -> standard_key("\\x1b[1;5B")
      [] key = "S-Up" -> standard_key("\\x1b[1;2A")
      [] key = "S-Down" -> standard_key("\\x1b[1;2B")
      [] key = "A-Left" -> standard_key("\\x1b[1;3D")
      [] key = "A-Right" -> standard_key("\\x1b[1;3C")
      [] key = "A-Up" -> standard_key("\\x1b[1;3A")
      [] key = "A-Down" -> standard_key("\\x1b[1;3B")
      [] key \in {"C-S-Left", "S-C-Left"} -> standard_key("\\x1b[1;6D")
      [] key \in {"C-S-Right", "S-C-Right"} -> standard_key("\\x1b[1;6C")
      [] key \in {"C-S-Up", "S-C-Up"} -> standard_key("\\x1b[1;6A")
      [] key \in {"C-S-Down", "S-C-Down"} -> standard_key("\\x1b[1;6B")
      [] key \in {"C-A-Left", "A-C-Left"} -> standard_key("\\x1b[1;7D")
      [] key \in {"C-A-Right", "A-C-Right"} -> standard_key("\\x1b[1;7C")
      [] key \in {"C-A-Up", "A-C-Up"} -> standard_key("\\x1b[1;7A")
      [] key \in {"C-A-Down", "A-C-Down"} -> standard_key("\\x1b[1;7B")
      [] key \in {"A-S-Left", "S-A-Left"} -> standard_key("\\x1b[1;4D")
      [] key \in {"A-S-Right", "S-A-Right"} -> standard_key("\\x1b[1;4C")
      [] key \in {"A-S-Up", "S-A-Up"} -> standard_key("\\x1b[1;4A")
      [] key \in {"A-S-Down", "S-A-Down"} -> standard_key("\\x1b[1;4B")
      [] key \in {"C-A-S-Left", "C-S-A-Left", "A-C-S-Left", "S-C-A-Left", "A-S-C-Left", "S-A-C-Left"} -> standard_key("\\x1b[1;8D")
      [] key \in {"C-A-S-Right", "C-S-A-Right", "A-C-S-Right", "S-C-A-Right", "A-S-C-Right", "S-A-C-Right"} -> standard_key("\\x1b[1;8C")
      [] key \in {"C-A-S-Up", "C-S-A-Up", "A-C-S-Up", "S-C-A-Up", "A-S-C-Up", "S-A-C-Up"} -> standard_key("\\x1b[1;8A")
      [] key \in {"C-A-S-Down", "C-S-A-Down", "A-C-S-Down", "S-C-A-Down", "A-S-C-Down", "S-A-C-Down"} -> standard_key("\\x1b[1;8B")
      [] key = "F1" -> standard_key("\\x1bOP")
      [] key = "F2" -> standard_key("\\x1bOQ")
      [] key = "F3" -> standard_key("\\x1bOR")
      [] key = "F4" -> standard_key("\\x1bOS")
      [] key = "F5" -> standard_key("\\x1b[15~")
      [] key = "F6" -> standard_key("\\x1b[17~")
      [] key = "F7" -> standard_key("\\x1b[18~")
      [] key = "F8" -> standard_key("\\x1b[19~")
      [] key = "F9" -> standard_key("\\x1b[20~")
      [] key = "F10" -> standard_key("\\x1b[21~")
      [] key = "F11" -> standard_key("\\x1b[23~")
      [] key = "F12" -> standard_key("\\x1b[24~")
      [] key = "C-F1" -> standard_key("\\x1b[1;5P")
      [] key = "C-F2" -> standard_key("\\x1b[1;5Q")
      [] key = "C-F3" -> standard_key("\\x1b[1;5R")
      [] key = "C-F4" -> standard_key("\\x1b[1;5S")
      [] key = "C-F5" -> standard_key("\\x1b[15;5~")
      [] key = "C-F6" -> standard_key("\\x1b[17;5~")
      [] key = "C-F7" -> standard_key("\\x1b[18;5~")
      [] key = "C-F8" -> standard_key("\\x1b[19;5~")
      [] key = "C-F9" -> standard_key("\\x1b[20;5~")
      [] key = "C-F10" -> standard_key("\\x1b[21;5~")
      [] key = "C-F11" -> standard_key("\\x1b[23;5~")
      [] key = "C-F12" -> standard_key("\\x1b[24;5~")
      [] key = "S-F1" -> standard_key("\\x1b[1;2P")
      [] key = "S-F2" -> standard_key("\\x1b[1;2Q")
      [] key = "S-F3" -> standard_key("\\x1b[1;2R")
      [] key = "S-F4" -> standard_key("\\x1b[1;2S")
      [] key = "S-F5" -> standard_key("\\x1b[15;2~")
      [] key = "S-F6" -> standard_key("\\x1b[17;2~")
      [] key = "S-F7" -> standard_key("\\x1b[18;2~")
      [] key = "S-F8" -> standard_key("\\x1b[19;2~")
      [] key = "S-F9" -> standard_key("\\x1b[20;2~")
      [] key = "S-F10" -> standard_key("\\x1b[21;2~")
      [] key = "S-F11" -> standard_key("\\x1b[23;2~")
      [] key = "S-F12" -> standard_key("\\x1b[24;2~")
      [] key = "A-F1" -> standard_key("\\x1b[1;3P")
      [] key = "A-F2" -> standard_key("\\x1b[1;3Q")
      [] key = "A-F3" -> standard_key("\\x1b[1;3R")
      [] key = "A-F4" -> standard_key("\\x1b[1;3S")
      [] key = "A-F5" -> standard_key("\\x1b[15;3~")
      [] key = "A-F6" -> standard_key("\\x1b[17;3~")
      [] key = "A-F7" -> standard_key("\\x1b[18;3~")
      [] key = "A-F8" -> standard_key("\\x1b[19;3~")
      [] key = "A-F9" -> standard_key("\\x1b[20;3~")
      [] key = "A-F10" -> standard_key("\\x1b[21;3~")
      [] key = "A-F11" -> standard_key("\\x1b[23;3~")
      [] key = "A-F12" -> standard_key("\\x1b[24;3~")
      [] key = "Home" -> cursor_key("\\x1b[H", "\\x1bOH")
      [] key = "C-Home" -> standard_key("\\x1b[1;5H")
      [] key = "S-Home" -> standard_key("\\x1b[1;2H")
      [] key = "A-Home" -> standard_key("\\x1b[1;3H")
      [] key = "End" -> cursor_key("\\x1b[F", "\\x1bOF")
      [] key = "C-End" -> standard_key("\\x1b[1;5F")
      [] key = "S-End" -> standard_key("\\x1b[1;2F")
      [] key = "A-End" -> standard_key("\\x1b[1;3F")
      [] key = "PageUp" -> standard_key("\\x1b[5~")
      [] key = "C-PageUp" -> standard_key("\\x1b[5;5~")
      [] key = "S-PageUp" -> standard_key("\\x1b[5;2~")
      [] key = "A-PageUp" -> standard_key("\\x1b[5;3~")
      [] key = "PageDown" -> standard_key("\\x1b[6~")
      [] key = "C-PageDown" -> standard_key("\\x1b[6;5~")
      [] key = "S-PageDown" -> standard_key("\\x1b[6;2~")
      [] key = "A-PageDown" -> standard_key("\\x1b[6;3~")
      [] OTHER -> api_parse_key_chars(key)

api_parse_key(key) == api_parse_key_arms(key)

\* Reverse of a sequence.
Reversed(seq) == [i \in 1..Len(seq) |-> seq[Len(seq) + 1 - i]]

\* The keys are collected last to first.
build_command_keys_reversed(value) ==
    LET type == as_str(Index(value, "type"))
    IN  CASE type = Some("input") ->
                LET args == InputArgs(value)
                IN  IF args.ok THEN Ok(Input(<<standard_key(args.v.payload)>>)) ELSE args
          [] type = Some("sendKeys") ->
                LET args == SendKeysArgs(value)
                IN  IF args.ok
                    THEN Ok(Input(Reversed([i \in 1..Len(args.v.keys) |->
                                               parse_key(args.v.keys[i])])))
                    ELSE args
          [] type = Some("resize") ->
                LET args == ResizeArgs(value)
                IN  IF args.ok THEN Ok(Resize(args.v.cols, args.v.rows)) ELSE args
          [] type = Some("getView") -> Ok(GetView)
          [] OTHER -> Err("invalid command type")

build_command(value) ==
    LET type == as_str(Index(value, "type"))
    IN  CASE type = Some("input") ->
                LET args == InputArgs(value)
                IN  IF args.ok THEN Ok(Input(<<standard_key(args.v.payload)>>)) ELSE args
          [] type = Some("sendKeys") ->
                LET args == SendKeysArgs(value)
                IN  IF args.ok
                    THEN Ok(Input([i \in 1..Len(args.v.keys) |-> parse_key(args.v.keys[i])]))
                    ELSE args
          [] type = Some("resize") ->
                LET args == ResizeArgs(value)
                IN  IF args.ok THEN Ok(Resize(args.v.cols, args.v.rows)) ELSE args
          [] type = Some("getView") -> Ok(GetView)
          [] OTHER -> Err("invalid command type")

\* The mode is not looked at: a cursor key is always sent in its normal form.
seq_as_bytes_normal(seq, app_mode) ==
    CASE seq.kind = "Standard" -> seq.seq
      [] seq.kind = "Cursor" -> seq.seq1

\* The bytes one sequence stands for in the given cursor-key mode.
seq_as_bytes(seq, app_mode) ==
    CASE seq.kind = "Standard" -> seq.seq
      [] seq.kind = "Cursor" /\ ~app_mode -> seq.seq1
      [] seq.kind = "Cursor" /\ app_mode -> seq.seq2

RECURSIVE seqs_to_bytes(_, _)
seqs_to_bytes(seqs, app_mode) ==
    IF seqs = <<>> THEN ""
    ELSE seq_as_bytes(Head(seqs), app_mode) \o seqs_to_bytes(Tail(seqs), app_mode)

\* serde_json::from_str: a syntax error, or the value the line denotes.
serde_json_from_str(s) == IF s = Malformed THEN Err("syntax error") ELSE Ok(s)

\* Command::from_str: one line of standard input to a command or an error.
from_str(s) ==
    LET value == serde_json_from_str(s)
    IN  IF value.ok THEN build_command(value.v) ELSE value

(***************************************************************************)
(* The lines the parser is run on.                                         *)
(***************************************************************************)
TypeValues ==
    {Absent, Null, JNum(1), JStr(""), JStr("input"), JStr("sendKeys"), JStr("resize"),
     JStr("getView"), JStr("snapshot"), JStr("takeSnapshot"), JStr("Input")}

PayloadValues == {Absent, JStr(""), JStr("ls\\x0d"), JStr("Left"), JNum(1)}

KeysValues ==
    {Absent, JStr("Left"), JArr(<<>>), JArr(<<JStr("hello")>>),
     JArr(<<JStr("Left"), JStr("Enter")>>),
     JArr(<<JStr("C-c"), JStr("A-x"), JStr("^Z"), JStr("Up")>>),
     JArr(<<JStr("a"), JNum(1)>>)}

ColsValues == {Absent, JNum(0), JNum(80), JNum(-1), JFloat, JStr("80")}

RowsValues == {Absent, JNum(24), JStr("24")}

Lines ==
    {Malformed, Null, JNum(1), JStr("getView"), JArr(<<JStr("getView")>>)}
        \cup {JObj([type |-> type, payload |-> payload, keys |-> keys,
                    cols |-> cols, rows |-> rows]) :
                 type \in TypeValues, payload \in PayloadValues, keys \in KeysValues,
                 cols \in ColsValues, rows \in RowsValues}

(***************************************************************************)
(* main.rs: the reader of standard input that parses by hand, and the      *)
(* messages it sends to process_messages.                                  *)
(***************************************************************************)
as_u64(value) == IF value.t = "num" /\ value.v >= 0 THEN Some(value.v) ELSE None

MainInput(payload) == [cmd |-> "Input", payload |-> payload]

MessageCommand(command) == [msg |-> "Command", command |-> command]

MessageOutput(data) == [msg |-> "Output", data |-> data]

StdinClosed == [msg |-> "StdinClosed"]

ChildExited == [msg |-> "ChildExited"]

\* One iteration of the loop of read_stdin: a message to send ("send"), a
\* line passed over with a diagnostic ("skip"), or the error that read_stdin
\* returns with ("fail").
read_stdin_line(s) ==
    LET json == serde_json_from_str(s)
        type == as_str(Index(json.v, "type"))
    IN  CASE ~json.ok -> [res |-> "skip"]
          [] type = Some("input") ->
                LET payload == as_str(Index(json.v, "payload"))
                IN  IF payload.some
                    THEN [res |-> "send", message |-> MessageCommand(MainInput(payload.v))]
                    ELSE [res |-> "fail"]
          [] type = Some("resize") ->
                LET cols == as_u64(Index(json.v, "cols"))
                    rows == as_u64(Index(json.v, "rows"))
                IN  IF cols.some /\ rows.some
                    THEN [res |-> "send", message |-> MessageCommand(Resize(cols.v, rows.v))]
                    ELSE [res |-> "fail"]
          [] type = Some("getView") -> [res |-> "send", message |-> MessageCommand(GetView)]
          [] OTHER -> [res |-> "skip"]

\* The VT of process_messages: 80 by 24, resizable.
main_vt == [cols |-> 80, rows |-> 24, fed |-> <<>>, app |-> FALSE, resizable |-> TRUE]

\* The lines standard input is made of: two that parse, and one each that
\* is no JSON, has an unknown type, lacks a field, has a field of a wrong type.
Object(type, payload, cols, rows) ==
    JObj([type |-> type, payload |-> payload, keys |-> Absent, cols |-> cols, rows |-> rows])

LineInput == Object(JStr("input"), JStr("ls\\x0d"), Absent, Absent)

LineGetView == Object(JStr("getView"), Absent, Absent, Absent)

LineResize == Object(JStr("resize"), Absent, JNum(5), JNum(4))

LineKeys ==
    JObj([type |-> JStr("sendKeys"), payload |-> Absent,
          keys |-> JArr(<<JStr("Left"), JStr("Enter"), JStr("End")>>),
          cols |-> Absent, rows |-> Absent])

LineSnapshot == Object(JStr("snapshot"), Absent, Absent, Absent)

LineNoPayload == Object(JStr("input"), Absent, Absent, Absent)

LineColsString == Object(JStr("resize"), Absent, JStr("5"), JNum(4))

ValidLines == {LineInput, LineGetView, LineResize}

InvalidLines == {Malformed, LineSnapshot, LineNoPayload, LineColsString}

StdinLines == ValidLines \cup InvalidLines

SeqsUpTo(S, n) == UNION {[1..k -> S] : k \in 0..n}

(***************************************************************************)
(* Key names given to parse_key: the names of its literal arms, every      *)
(* ordering of one, two or three modifier prefixes before every arrow,     *)
(* navigation and function key, the control-letter forms, some A-<char>    *)
(* forms and some names no arm matches.                                    *)
(***************************************************************************)
Modifiers == {"C-", "S-", "A-"}

Orderings ==
    {o \in SeqsUpTo(Modifiers, 3) : o # <<>> /\ \A i, j \in 1..Len(o) : o[i] = o[j] => i = j}

Prefix(o) ==
    CASE Len(o) = 0 -> ""
      [] Len(o) = 1 -> o[1]
      [] Len(o) = 2 -> o[1] \o o[2]
      [] OTHER -> o[1] \o o[2] \o o[3]

Arrows == {"Left", "Right", "Up", "Down"}

Navigation == {"Home", "End", "PageUp", "PageDown"}

FunctionKeys == {"F1", "F2", "F3", "F4", "F5", "F6", "F7", "F8", "F9", "F10", "F11", "F12"}

ControlNames ==
    {"C-@", "C-Space", "^@", "C-[", "Escape", "^[", "C-\\", "^\\", "C-]", "^]",
     "C-^", "C-/", "C--", "C-_", "Tab", "Enter", "Space"}

LetterNames ==
    {p \o k : p \in {"C-", "^"}, k \in Range(LowerCase) \cup Range(UpperCase)}

AltNames == {"A-" \o k : k \in {"x", "X", "1", "!"}}

OtherNames == {"hello", "x", "Insert", "C-S-x", "A-xy", "^1"}

KeyNames ==
    ControlNames \cup LetterNames \cup AltNames \cup OtherNames
        \cup (Arrows \cup Navigation \cup FunctionKeys)
        \cup {Prefix(o) \o k : o \in Orderings, k \in Arrows \cup Navigation \cup FunctionKeys}

NoSeq == [kind |-> "none"]

NoKey == [name |-> "", seq |-> NoSeq, api_seq |-> NoSeq]

(***************************************************************************)
(* State.                                                                  *)
(***************************************************************************)
VARIABLES
    now,        \* the monotonic clock (Instant::now())
    session,    \* the Session the hub owns
    hub,        \* "running" | "stopped"
    clients,    \* the client channel: subscribers whose Client is queued
    sub,        \* per subscriber: pc, stream, got (the items its stream yielded)
    calls,      \* history: the Session calls the hub made, in order
    attach,     \* history: per subscriber, the hub's state when it subscribed
    line,       \* the line of standard input to parse
    parsed,     \* the result of parsing it
    key,        \* a key name and what the two copies of parse_key return for it
    stdin,      \* the lines standard input still holds
    reader,     \* the thread read_stdin: "running" | "done"
    input_ch,   \* the unbounded channel of lines from read_stdin to start
    api,        \* the task start: pc, the command it is sending, history
    command_ch, \* the bounded channel of commands from start to the hub
    delivered,  \* history: the commands the hub received, in order
    hub_bytes,  \* the bytes the hub is sending to the PTY input channel
    pty_input,  \* the bounded channel of input bytes from the hub to the driver
    pty_output, \* the bounded channel of output bytes from the driver to the hub
    input_log,  \* history: per Input command handled, its sequences, its bytes, the output fed before
    driver,     \* the PTY driver: pc, its buffer of pending input
    main,       \* main.rs: its threads, the channel of messages, process_messages
    child,      \* the forked child: where it is, SIGHUP, its unread output
    proc,       \* the driver of the child and the exit of the host process
    ws,         \* per subscriber: its WebSocket endpoint, the messages sent on it
    io          \* the driver loop byte by byte: buffers, system calls, what it sent

parseVars == <<line, parsed, key>>

stdioVars == <<stdin, reader, input_ch, api, command_ch, delivered>>

inputVars == <<hub_bytes, pty_input, pty_output, input_log, driver>>

\* What the Session, the stream clock and the subscribers never change.
lifeVars == <<child, proc>>

adapterVars == <<ws, io>>

envVars == <<parseVars, stdioVars, inputVars, main, lifeVars, adapterVars>>

vars == <<now, session, hub, clients, sub, calls, attach, envVars>>

NoAttach == [at |-> 0, now |-> 0, session |-> [pid |-> 0]]

NoLine == [t |-> "none"]

NoResult == [ok |-> FALSE, err |-> "none"]

NoCommand == [cmd |-> "none"]

(***************************************************************************)
(* The WebSocket endpoints of api/http.rs.  The Subscription of the event  *)
(* stream is the four flags event_stream_message reads.                    *)
(***************************************************************************)
Kinds == {"init", "output", "resize", "snapshot"}

Subscription(kinds) ==
    [init |-> "init" \in kinds, output |-> "output" \in kinds,
     resize |-> "resize" \in kinds, snapshot |-> "snapshot" \in kinds]

NoSubscription == Subscription({})

\* Event::to_json.
to_json(event) ==
    CASE event.type = "Init" ->
            [type |-> "init",
             data |-> [cols |-> event.cols, rows |-> event.rows, pid |-> event.pid,
                       seq |-> event.seq, text |-> event.text]]
      [] event.type = "Output" -> [type |-> "output", data |-> [seq |-> event.data]]
      [] event.type = "Resize" ->
            [type |-> "resize", data |-> [cols |-> event.cols, rows |-> event.rows]]
      [] event.type = "Snapshot" ->
            [type |-> "snapshot",
             data |-> [cols |-> event.cols, rows |-> event.rows,
                       seq |-> event.seq, text |-> event.text]]

json_message(value) == [msg |-> "Text", value |-> value]

close_message == [msg |-> "Close", code |-> "NORMAL", reason |-> "ended"]

\* An item of the stream is Ok(event) or Err(lagged).
\* Every event is passed on, whatever the subscription.
event_stream_message_all(item, subscription) ==
    IF item.ok THEN Some(Ok(json_message(to_json(item.ev)))) ELSE Some(Err(item.ev))

\* An error of the stream is passed over like an event outside the subset.
event_stream_message_ok_only(item, subscription) ==
    CASE item.ok /\ item.ev.type = "Init" /\ subscription.init ->
            Some(Ok(json_message(to_json(item.ev))))
      [] item.ok /\ item.ev.type = "Output" /\ subscription.output ->
            Some(Ok(json_message(to_json(item.ev))))
      [] item.ok /\ item.ev.type = "Resize" /\ subscription.resize ->
            Some(Ok(json_message(to_json(item.ev))))
      [] item.ok /\ item.ev.type = "Snapshot" /\ subscription.snapshot ->
            Some(Ok(json_message(to_json(item.ev))))
      [] OTHER -> None

event_stream_message(item, subscription) ==
    CASE item.ok /\ item.ev.type = "Init" /\ subscription.init ->
            Some(Ok(json_message(to_json(item.ev))))
      [] item.ok /\ item.ev.type = "Output" /\ subscription.output ->
            Some(Ok(json_message(to_json(item.ev))))
      [] item.ok /\ item.ev.type = "Resize" /\ subscription.resize ->
            Some(Ok(json_message(to_json(item.ev))))
      [] item.ok /\ item.ev.type = "Snapshot" /\ subscription.snapshot ->
            Some(Ok(json_message(to_json(item.ev))))
      [] item.ok -> None
      [] OTHER -> Some(Err(item.ev))

alis_message(item) ==
    CASE item.ok /\ item.ev.type = "Init" ->
            Some(Ok(json_message([time |-> item.ev.time, cols |-> item.ev.cols,
                                  rows |-> item.ev.rows, init |-> item.ev.seq])))
      [] item.ok /\ item.ev.type = "Output" ->
            Some(Ok(json_message(<<item.ev.time, "o", item.ev.data>>)))
      [] item.ok /\ item.ev.type = "Resize" ->
            Some(Ok(json_message(<<item.ev.time, "r",
                                   ToString(item.ev.cols) \o "x" \o ToString(item.ev.rows)>>)))
      [] item.ok /\ item.ev.type = "Snapshot" -> None
      [] OTHER -> Some(Err(item.ev))

\* A connection: the endpoint, its subscription, how many items of the
\* stream it has taken, the messages sent, and whether it is open.
ws_new(endpoint, kinds) ==
    [endpoint |-> endpoint, sub |-> Subscription(kinds), n |-> 0, sent |-> <<>>,
     state |-> "open"]

NoEndpoint == ws_new("none", {})

\* Subsets a subscriber chooses: each kind is in one and out of another.
Subsets == {{}, {"init", "resize"}, {"output", "snapshot"}, Kinds}

Endpoints == {ws_new("alis", {})} \cup {ws_new("events", kinds) : kinds \in Subsets}

\* The child right after forkpty, about to set up and call execvp, on a
\* terminal with the given window size.
child_forked(winsize) ==
    [pc |-> "exec", exec |-> "none", exit_by |-> "none", hup |-> FALSE,
     out |-> 0, pty |-> 0, stdin |-> "", winsize |-> winsize]

\* Values of --size: the default 120x40, and 80x24.
CliSizes == {<<120, 40>>, <<80, 24>>}

(***************************************************************************)
(* nbio and the driver loop byte by byte.  A system call ends with a       *)
(* number of bytes (errno "none") or with an errno.                        *)
(***************************************************************************)
Transferred(n) == [errno |-> "none", n |-> n]

Failed(errno) == [errno |-> errno, n |-> 0]

\* A read that would block is reported as the end of the file.
nbio_read_eof_on_block(os) ==
    IF os.errno = "none" THEN Ok(Some(os.n))
    ELSE IF os.errno \in {"EAGAIN", "EIO"} THEN Ok(Some(0))
    ELSE Err(os.errno)

\* nbio::read: io::Result<Option<usize>>.
nbio_read(os) ==
    IF os.errno = "none" THEN Ok(Some(os.n))
    ELSE IF os.errno = "EAGAIN" THEN Ok(None)
    ELSE IF os.errno = "EIO" THEN Ok(Some(0))
    ELSE Err(os.errno)

\* nbio::write.
nbio_write(os) ==
    IF os.errno = "none" THEN Ok(Some(os.n))
    ELSE IF os.errno = "EAGAIN" THEN Ok(None)
    ELSE IF os.errno = "EIO" THEN Ok(Some(0))
    ELSE Err(os.errno)

\* Bytes of child output: an ASCII letter, and the two bytes of U+00E9.
\* String::from_utf8_lossy: a lead byte without its continuation byte and a
\* continuation byte without its lead byte each become U+FFFD.
\* Bytes that are not valid UTF-8 are left out of the text.
RECURSIVE from_utf8_skip(_)
from_utf8_skip(bytes) ==
    IF bytes = <<>> THEN <<>>
    ELSE IF Head(bytes) = "C3" /\ Len(bytes) >= 2 /\ bytes[2] = "A9"
         THEN <<"U+00E9">> \o from_utf8_skip(Tail(Tail(bytes)))
    ELSE IF Head(bytes) \in {"C3", "A9"}
         THEN from_utf8_skip(Tail(bytes))
    ELSE <<Head(bytes)>> \o from_utf8_skip(Tail(bytes))

RECURSIVE from_utf8_lossy(_)
from_utf8_lossy(bytes) ==
    IF bytes = <<>> THEN <<>>
    ELSE IF Head(bytes) = "C3" /\ Len(bytes) >= 2 /\ bytes[2] = "A9"
         THEN <<"U+00E9">> \o from_utf8_lossy(Tail(Tail(bytes)))
    ELSE IF Head(bytes) \in {"C3", "A9"}
         THEN <<"U+FFFD">> \o from_utf8_lossy(Tail(bytes))
    ELSE <<Head(bytes)>> \o from_utf8_lossy(Tail(bytes))

Drop(seq, n) == SubSeq(seq, n + 1, Len(seq))

\* The loop of do_drive_child (variant "pty") or handle_pty (variant
\* "main") about to wait, with the input messages and the chunks of child
\* output that are still to come.
io_new(variant, msgs, master) ==
    [variant |-> variant, pc |-> "select", result |-> "none",
     msgs |-> msgs, input |-> <<>>, buf |-> <<>>, received |-> <<>>, written |-> <<>>,
     master |-> master, peer |-> "open", read |-> <<>>, sent |-> <<>>,
     call |-> "none", os |-> Failed("none"), ret |-> Ok(None)]

NoIo == io_new("none", <<>>, <<>>)

IoInputs == {<< <<"a", "b">>, <<"c">> >>}

IoOutputs == {<< <<"h">> >>, << <<"C3">>, <<"A9">> >>, << <<"h", "C3", "A9">>, <<"h">> >>}

\* The driver at the start of its loop; variant is "pty" for drive_child of
\* pty.rs, "main" for handle_process of main.rs, "none" where no child is
\* driven.
proc_new(variant) ==
    [variant |-> variant, pc |-> "loop", loop_result |-> "none", result |-> "none",
     input |-> "", pipe_rx |-> "open", output_tx |-> "open", sent |-> 0, exit |-> "none"]

InitIoWith(subscribers, lines, stdins, names, variants, endpoints, sizes, ios) ==
    /\ now = 0
    /\ \E size \in InitSizes, pid \in Pids :
          session = Session_new(size[1], size[2], pid, 0)
    /\ hub = "running"
    /\ clients = <<>>
    /\ sub = [s \in subscribers |-> [pc |-> "idle", stream |-> NoStream, got |-> <<>>]]
    /\ calls = <<>>
    /\ attach = [s \in subscribers |-> NoAttach]
    /\ line \in lines
    /\ parsed = NoResult
    /\ key \in {[NoKey EXCEPT !.name = name] : name \in names}
    /\ stdin \in stdins
    /\ reader = "running"
    /\ input_ch = <<>>
    /\ api = [pc |-> "recv", command |-> NoCommand, lines |-> <<>>, errors |-> <<>>]
    /\ command_ch = <<>>
    /\ delivered = <<>>
    /\ hub_bytes = ""
    /\ pty_input = <<>>
    /\ pty_output = <<>>
    /\ input_log = <<>>
    /\ driver = [pc |-> "loop", input |-> "", chunk |-> "", reads |-> 0]
    /\ main = [reader |-> "running", reader_result |-> "none", read |-> <<>>,
               messages |-> <<>>, received |-> <<>>,
               loop |-> "running", vt |-> main_vt, input |-> "open", pipe |-> "",
               views |-> 0, stdin_fd |-> "open"]
    /\ child \in {child_forked(winsize) : winsize \in sizes}
    /\ proc \in {proc_new(variant) : variant \in variants}
    /\ ws \in [subscribers -> endpoints]
    /\ io \in ios

InitCliWith(subscribers, lines, stdins, names, variants, endpoints, sizes) ==
    InitIoWith(subscribers, lines, stdins, names, variants, endpoints, sizes, {NoIo})

InitAdaptersWith(subscribers, lines, stdins, names, variants, endpoints) ==
    InitCliWith(subscribers, lines, stdins, names, variants, endpoints, InitSizes)

InitLifeWith(subscribers, lines, stdins, names, variants) ==
    InitAdaptersWith(subscribers, lines, stdins, names, variants, {NoEndpoint})

InitKeysWith(subscribers, lines, stdins, names) ==
    InitLifeWith(subscribers, lines, stdins, names, {"none"})

InitWith(subscribers, lines, stdins) == InitKeysWith(subscribers, lines, stdins, {""})

Init == InitWith(Subscribers, {NoLine}, {<<>>})

InitFanout == InitWith(FanoutSubscribers, {NoLine}, {<<>>})

InitParse == InitWith(Subscribers, Lines, {<<>>})

InitStdin == InitWith(Subscribers, {NoLine}, SeqsUpTo(StdinLines, MaxLines))

InitKeys == InitKeysWith(Subscribers, {NoLine}, {<<>>}, KeyNames)

InitWs == InitAdaptersWith(Subscribers, {NoLine}, {<<>>}, {""}, {"none"}, Endpoints)

\* The connections followed to their end: the live preview, and an event
\* stream of every kind.
InitWsEnd ==
    InitAdaptersWith(Subscribers, {NoLine}, {<<>>}, {""}, {"none"},
                     {ws_new("alis", {}), ws_new("events", Kinds)})

\* Two connections, each to the event stream with no kind or every kind
\* chosen, or to the live preview.
InitWsLag ==
    InitAdaptersWith(FanoutSubscribers, {NoLine}, {<<>>}, {""}, {"none"},
                     {ws_new("events", {}), ws_new("events", Kinds), ws_new("alis", {})})

LifeLines == {LineInput, LineGetView}

InitLife ==
    InitLifeWith(Subscribers, {NoLine}, SeqsUpTo(LifeLines, MaxLines - 1), {""}, {"pty", "main"})

InitMainLife ==
    InitLifeWith(Subscribers, {NoLine}, SeqsUpTo(LifeLines, MaxLines - 1), {""}, {"main"})

\* main.rs started with a value of --size, reading input and resize lines.
InitMainSize ==
    InitCliWith(Subscribers, {NoLine}, SeqsUpTo({LineInput, LineResize}, MaxLines - 1), {""},
                {"main"}, {NoEndpoint}, CliSizes)

InitIo ==
    InitIoWith(Subscribers, {NoLine}, {<<>>}, {""}, {"none"}, {NoEndpoint}, InitSizes,
               {io_new(variant, msgs, master) :
                    variant \in {"pty", "main"}, msgs \in IoInputs, master \in IoOutputs})


Tick ==
    /\ now < MaxTime
    /\ now' = now + 1
    /\ UNCHANGED <<session, hub, clients, sub, calls, attach, envVars>>

\* The second reading of the clock in output and resize is d ticks after
\* the first.
ClockReads(D) == {d \in D : now + d <= MaxTime}

(***************************************************************************)
(* The event hub: one action per arm of its select.  Child output and      *)
(* commands arrive from their channels in any order.                       *)
(***************************************************************************)
HubOutputOf(D, chunks) ==
    /\ hub = "running"
    /\ Len(calls) < MaxSteps
    /\ \E data \in chunks, d \in ClockReads(D) :
          /\ session' = Session_output(session, data, now, now + d)
          /\ now' = now + d
          /\ calls' = Append(calls, [op |-> "output", data |-> data])
    /\ UNCHANGED <<hub, clients, sub, attach, envVars>>

HubOutput(D) == HubOutputOf(D, Data)

HubResize(D, sizes) ==
    /\ hub = "running"
    /\ Len(calls) < MaxSteps
    /\ \E size \in sizes, d \in ClockReads(D) :
          /\ session' = Session_resize(session, size[1], size[2], now, now + d)
          /\ now' = now + d
          /\ calls' = Append(calls, [op |-> "resize", cols |-> size[1], rows |-> size[2]])
    /\ UNCHANGED <<hub, clients, sub, attach, envVars>>

HubGetView ==
    /\ hub = "running"
    /\ Len(calls) < MaxSteps
    /\ session' = Session_snapshot(session)
    /\ calls' = Append(calls, [op |-> "snapshot"])
    /\ UNCHANGED <<now, hub, clients, sub, attach, envVars>>

\* Client::accept: the reply is lost when the requester has given up.
HubClient ==
    /\ hub = "running"
    /\ clients # <<>>
    /\ LET s == Head(clients)
           subscription == Session_subscribe(session, now)
       IN  /\ clients' = Tail(clients)
           /\ IF sub[s].pc = "waiting"
              THEN /\ sub' = [sub EXCEPT ![s].pc = "streaming",
                                         ![s].stream = stream_new(subscription)]
                   /\ attach' = [attach EXCEPT ![s] =
                                    [at |-> Len(session.broadcast_tx), now |-> now,
                                     session |-> session]]
              ELSE UNCHANGED <<sub, attach>>
    /\ UNCHANGED <<now, session, hub, calls, envVars>>

\* The hub returns: the Session and the client channel are dropped.
HubStop ==
    /\ hub = "running"
    /\ hub' = "stopped"
    /\ clients' = <<>>
    /\ sub' = [s \in DOMAIN sub |->
                 IF sub[s].pc = "waiting" THEN [sub[s] EXCEPT !.pc = "error"] ELSE sub[s]]
    /\ UNCHANGED <<now, session, calls, attach, envVars>>

(***************************************************************************)
(* A subscriber: session::stream and the polls of the stream it returns.   *)
(***************************************************************************)
StreamRequest(s) ==
    /\ sub[s].pc = "idle"
    /\ IF hub # "stopped"
       THEN /\ Len(clients) < ClientCap
            /\ clients' = Append(clients, s)
            /\ sub' = [sub EXCEPT ![s].pc = "waiting"]
       ELSE /\ sub' = [sub EXCEPT ![s].pc = "error"]
            /\ UNCHANGED clients
    /\ UNCHANGED <<now, session, hub, calls, attach, envVars>>

\* The timeout yields a stream with nothing in it, not an error.
StreamTimeout_empty_stream(s) ==
    /\ sub[s].pc = "waiting"
    /\ sub' = [sub EXCEPT ![s].pc = "streaming"]
    /\ UNCHANGED <<now, session, hub, clients, calls, attach, envVars>>

\* The 5 second timeout on the reply.
StreamTimeout(s) ==
    /\ sub[s].pc = "waiting"
    /\ sub' = [sub EXCEPT ![s].pc = "error"]
    /\ UNCHANGED <<now, session, hub, clients, calls, attach, envVars>>

StreamPoll(s) ==
    /\ sub[s].pc = "streaming"
    /\ LET r == stream_poll(sub[s].stream, session.broadcast_tx, hub = "stopped")
       IN  /\ r.res \in {"Ok", "Lagged", "Closed"}
           /\ sub' = [sub EXCEPT
                  ![s].stream = r.st,
                  ![s].pc = IF r.res = "Closed" THEN "ended" ELSE @,
                  ![s].got = IF r.res = "Closed" THEN @
                             ELSE Append(@, [ok |-> r.res = "Ok", ev |-> r.ev, idx |-> r.idx])]
    /\ UNCHANGED <<now, session, hub, clients, calls, attach, envVars>>

(***************************************************************************)
(* A WebSocket handler: the stream of session::stream, filtered, then the  *)
(* close message, forwarded to the sink.                                   *)
(***************************************************************************)
wsFrame == <<now, session, hub, clients, sub, calls, attach, parseVars, stdioVars, inputVars,
             main, lifeVars, io>>

\* session::stream(..).await?: no stream, the handler returns the error.
WsStreamError(s) ==
    /\ ws[s].state = "open"
    /\ sub[s].pc = "error"
    /\ ws' = [ws EXCEPT ![s].state = "failed"]
    /\ UNCHANGED wsFrame

\* forward takes the next item of the stream through filter_map: a message
\* is sent, an event is passed over, or an error ends forward.
WsForward(s) ==
    /\ ws[s].state = "open"
    /\ ws[s].n < Len(sub[s].got)
    /\ LET item == sub[s].got[ws[s].n + 1]
           r == IF ws[s].endpoint = "alis" THEN alis_message(item)
                ELSE event_stream_message(item, ws[s].sub)
       IN  ws' = CASE ~r.some -> [ws EXCEPT ![s].n = @ + 1]
                   [] r.v.ok -> [ws EXCEPT ![s].n = @ + 1, ![s].sent = Append(@, r.v.v)]
                   [] OTHER -> [ws EXCEPT ![s].state = "failed"]
    /\ UNCHANGED wsFrame

\* The close message goes out as soon as the Session is gone.
WsClose_at_once(s) ==
    /\ ws[s].state = "open"
    /\ sub[s].pc \in {"streaming", "ended"}
    /\ hub = "stopped"
    /\ ws' = [ws EXCEPT ![s].sent = Append(@, close_message), ![s].state = "closed"]
    /\ UNCHANGED wsFrame

\* The stream has ended: chain yields the close message, forward sends it
\* and returns.
WsClose(s) ==
    /\ ws[s].state = "open"
    /\ sub[s].pc = "ended"
    /\ ws[s].n = Len(sub[s].got)
    /\ ws' = [ws EXCEPT ![s].sent = Append(@, close_message), ![s].state = "closed"]
    /\ UNCHANGED wsFrame

\* The sink fails (the peer is gone): forward returns the error.
WsSendFail(s) ==
    /\ ws[s].state = "open"
    /\ sub[s].pc \in {"streaming", "ended"}
    /\ ws' = [ws EXCEPT ![s].state = "failed"]
    /\ UNCHANGED wsFrame

(***************************************************************************)
(* The reader of standard input parses one line.                           *)
(***************************************************************************)
ParseLine ==
    /\ line # NoLine
    /\ parsed = NoResult
    /\ parsed' = from_str(line)
    /\ UNCHANGED <<now, session, hub, clients, sub, calls, attach, line, key, stdioVars, inputVars, main, lifeVars, adapterVars>>

\* parse_key of command.rs on the key name.
ParseKey ==
    /\ key.name # ""
    /\ key.seq = NoSeq
    /\ key' = [key EXCEPT !.seq = parse_key(key.name)]
    /\ UNCHANGED <<now, session, hub, clients, sub, calls, attach, line, parsed, stdioVars, inputVars, main, lifeVars, adapterVars>>

\* parse_key of api.rs on the key name.
ApiParseKey ==
    /\ key.name # ""
    /\ key.api_seq = NoSeq
    /\ key' = [key EXCEPT !.api_seq = api_parse_key(key.name)]
    /\ UNCHANGED <<now, session, hub, clients, sub, calls, attach, line, parsed, stdioVars, inputVars, main, lifeVars, adapterVars>>

(***************************************************************************)
(* The stdio API: the thread read_stdin and the task start.                *)
(***************************************************************************)
\* One line read and sent on; the send fails once start has returned.
ReadStdin ==
    /\ reader = "running"
    /\ stdin # <<>>
    /\ stdin' = Tail(stdin)
    /\ IF api.pc \in {"recv", "send"}
       THEN input_ch' = Append(input_ch, Head(stdin)) /\ UNCHANGED reader
       ELSE reader' = "done" /\ UNCHANGED input_ch
    /\ UNCHANGED <<now, session, hub, clients, sub, calls, attach, parseVars, adapterVars, lifeVars,
                   api, command_ch, delivered, inputVars, main>>

\* End of input: read_stdin returns and drops its sender.
ReadStdinEof ==
    /\ reader = "running"
    /\ stdin = <<>>
    /\ reader' = "done"
    /\ UNCHANGED <<now, session, hub, clients, sub, calls, attach, parseVars, adapterVars, lifeVars,
                   stdin, input_ch, api, command_ch, delivered, inputVars, main>>

\* start takes a line and parses it: a command to send, or an error printed.
StartLine ==
    /\ api.pc = "recv"
    /\ input_ch # <<>>
    /\ input_ch' = Tail(input_ch)
    /\ LET result == from_str(Head(input_ch))
       IN  api' = [api EXCEPT
                     !.lines = Append(@, Head(input_ch)),
                     !.pc = IF result.ok THEN "send" ELSE "recv",
                     !.command = IF result.ok THEN result.v ELSE NoCommand,
                     !.errors = IF result.ok THEN @ ELSE Append(@, Head(input_ch))]
    /\ UNCHANGED <<now, session, hub, clients, sub, calls, attach, parseVars, adapterVars, lifeVars,
                   stdin, reader, command_ch, delivered, inputVars, main>>

\* try_send in place of send().await: a command that finds the channel full
\* is dropped.
StartSend_try_send ==
    /\ api.pc = "send"
    /\ IF hub = "stopped"
       THEN api' = [api EXCEPT !.pc = "err", !.command = NoCommand] /\ UNCHANGED command_ch
       ELSE /\ command_ch' = IF Len(command_ch) < CommandCap
                             THEN Append(command_ch, api.command) ELSE command_ch
            /\ api' = [api EXCEPT !.pc = "recv", !.command = NoCommand]
    /\ UNCHANGED <<now, session, hub, clients, sub, calls, attach, parseVars, adapterVars, lifeVars,
                   stdin, reader, input_ch, delivered, inputVars, main>>

\* command_tx.send(command).await?: waits for room; fails, and start returns
\* the error, when the hub has dropped the receiver.
StartSend ==
    /\ api.pc = "send"
    /\ IF hub = "stopped"
       THEN api' = [api EXCEPT !.pc = "err", !.command = NoCommand] /\ UNCHANGED command_ch
       ELSE /\ Len(command_ch) < CommandCap
            /\ command_ch' = Append(command_ch, api.command)
            /\ api' = [api EXCEPT !.pc = "recv", !.command = NoCommand]
    /\ UNCHANGED <<now, session, hub, clients, sub, calls, attach, parseVars, adapterVars, lifeVars,
                   stdin, reader, input_ch, delivered, inputVars, main>>

\* recv() yields None: every line has been handled and read_stdin is gone.
StartEnd ==
    /\ api.pc = "recv"
    /\ input_ch = <<>>
    /\ reader = "done"
    /\ api' = [api EXCEPT !.pc = "ok"]
    /\ UNCHANGED <<now, session, hub, clients, sub, calls, attach, parseVars, adapterVars, lifeVars,
                   stdin, reader, input_ch, command_ch, delivered, inputVars, main>>

\* A command sent by start without the lines and the steps that lead to it:
\* the command one of the given lines parses to enters the command channel.
CommandArrives(lines) ==
    /\ hub # "stopped"
    /\ Len(delivered) + Len(command_ch) < MaxLines
    /\ Len(command_ch) < CommandCap
    /\ \E s \in lines :
          /\ from_str(s).ok
          /\ command_ch' = Append(command_ch, from_str(s).v)
    /\ UNCHANGED <<now, session, hub, clients, sub, calls, attach, parseVars, adapterVars, lifeVars,
                   stdin, reader, input_ch, api, delivered, inputVars, main>>

(***************************************************************************)
(* The event hub, command arm: one command taken from the command channel. *)
(***************************************************************************)
HubCommand(D) ==
    /\ hub = "running"
    /\ command_ch # <<>>
    /\ command_ch' = Tail(command_ch)
    /\ delivered' = Append(delivered, Head(command_ch))
    /\ LET command == Head(command_ch)
       IN  CASE command.cmd = "Input" ->
                  LET app_mode == Session_cursor_key_app_mode(session)
                      bytes == seqs_to_bytes(command.seqs, app_mode)
                  IN  /\ hub' = "sending"
                      /\ hub_bytes' = bytes
                      /\ input_log' = Append(input_log,
                             [seqs |-> command.seqs, bytes |-> bytes,
                              fed |-> Len(session.vt.fed)])
                      /\ UNCHANGED <<now, session, calls>>
             [] command.cmd = "Resize" ->
                  /\ \E d \in ClockReads(D) :
                        /\ session' = Session_resize(session, command.cols, command.rows,
                                                     now, now + d)
                        /\ now' = now + d
                  /\ calls' = Append(calls, [op |-> "resize", cols |-> command.cols,
                                             rows |-> command.rows])
                  /\ UNCHANGED <<hub, hub_bytes, input_log>>
             [] command.cmd = "GetView" ->
                  /\ session' = Session_snapshot(session)
                  /\ calls' = Append(calls, [op |-> "snapshot"])
                  /\ UNCHANGED <<now, hub, hub_bytes, input_log>>
    /\ UNCHANGED <<clients, sub, attach, parseVars, adapterVars, lifeVars, stdin, reader, input_ch, api,
                   pty_input, pty_output, driver, main>>

\* The bytes sent to the PTY input are also shown: fed to the VT and
\* broadcast as output.
HubSendInput_echo ==
    /\ hub = "sending"
    /\ Len(pty_input) < InputCap
    /\ pty_input' = Append(pty_input, hub_bytes)
    /\ hub_bytes' = ""
    /\ hub' = "running"
    /\ session' = Session_output(session, hub_bytes, now, now)
    /\ UNCHANGED <<now, clients, sub, calls, attach, parseVars, adapterVars, lifeVars, stdioVars,
                   input_log, driver, pty_output, main>>

\* The send to the PTY input channel completes when the channel has room.
HubSendInput ==
    /\ hub = "sending"
    /\ Len(pty_input) < InputCap
    /\ pty_input' = Append(pty_input, hub_bytes)
    /\ hub_bytes' = ""
    /\ hub' = "running"
    /\ UNCHANGED <<now, session, clients, sub, calls, attach, parseVars, adapterVars, lifeVars, stdioVars,
                   input_log, driver, pty_output, main>>

\* The command source has closed: the hub stops.
HubCommandsClosed ==
    /\ command_ch = <<>>
    /\ api.pc \in {"ok", "err"}
    /\ HubStop

(***************************************************************************)
(* The PTY driver, input side.                                             *)
(***************************************************************************)
\* The driver echoes the input it takes into the VT.
DriverInput_echo ==
    /\ driver.pc = "loop"
    /\ pty_input # <<>>
    /\ driver' = [driver EXCEPT !.input = @ \o Head(pty_input)]
    /\ pty_input' = Tail(pty_input)
    /\ session' = [session EXCEPT !.vt = vt_feed_str(@, Head(pty_input))]
    /\ UNCHANGED <<now, hub, clients, sub, calls, attach, parseVars, adapterVars, lifeVars, stdioVars,
                   hub_bytes, input_log, pty_output, main>>

\* input_rx.recv() yields Some(data): the data joins the pending input.
DriverInput ==
    /\ driver.pc = "loop"
    /\ pty_input # <<>>
    /\ driver' = [driver EXCEPT !.input = @ \o Head(pty_input)]
    /\ pty_input' = Tail(pty_input)
    /\ UNCHANGED <<now, session, hub, clients, sub, calls, attach, parseVars, adapterVars, lifeVars, stdioVars,
                   hub_bytes, input_log, pty_output, main>>

(***************************************************************************)
(* The PTY driver, output side, and the hub's child-output arm fed from    *)
(* the output channel.                                                     *)
(***************************************************************************)
driverFrame ==
    <<now, hub, clients, sub, attach, parseVars, stdioVars, adapterVars, lifeVars,
      hub_bytes, pty_input, input_log, main>>

\* do_drive_child, master readable: nbio::read gives Some(n), n > 0; the
\* driver holds the chunk and starts output_tx.send(..).
DriverRead ==
    /\ driver.pc \in {"loop", "read"}
    /\ driver.reads < ChildChunks
    /\ driver' = [driver EXCEPT !.pc = "send", !.chunk = TEXT, !.reads = @ + 1]
    /\ UNCHANGED <<driverFrame, session, calls, pty_output>>

\* nbio::read gives None: clear_ready, break, back to the select.
DriverReadNone ==
    /\ driver.pc = "read"
    /\ driver.reads = ChildChunks
    /\ driver' = [driver EXCEPT !.pc = "loop"]
    /\ UNCHANGED <<driverFrame, session, calls, pty_output>>

\* output_tx.send(buf[0..n].to_vec()).await completes once the channel has
\* room; until then the driver waits inside the read loop.
DriverSend ==
    /\ driver.pc = "send"
    /\ Len(pty_output) < OutputCap
    /\ pty_output' = Append(pty_output, driver.chunk)
    /\ driver' = [driver EXCEPT !.pc = "read", !.chunk = ""]
    /\ UNCHANGED <<driverFrame, session, calls>>

\* The hub's select takes a chunk from the output channel:
\* session.output(utf8_lossy(bytes)).
HubTakeOutput ==
    /\ hub = "running"
    /\ pty_output # <<>>
    /\ pty_output' = Tail(pty_output)
    /\ session' = Session_output(session, Head(pty_output), now, now)
    /\ calls' = Append(calls, [op |-> "output", data |-> Head(pty_output)])
    /\ UNCHANGED <<driverFrame, driver>>

(***************************************************************************)
(* main.rs.  Its threads talk over one unbounded channel of messages.      *)
(***************************************************************************)
mainFrame ==
    <<now, session, hub, clients, sub, calls, attach, parseVars, adapterVars, lifeVars, reader, input_ch, api,
      command_ch, delivered, inputVars>>

\* The channel hands out the newest message first.
main_send_newest_first(m, message) ==
    IF m.loop = "running"
    THEN [ok |-> TRUE, m |-> [m EXCEPT !.messages = <<message>> \o @]]
    ELSE [ok |-> FALSE, m |-> m]

\* sender.send(message): fails once process_messages has dropped the receiver.
main_send(m, message) ==
    IF m.loop = "running"
    THEN [ok |-> TRUE, m |-> [m EXCEPT !.messages = Append(@, message)]]
    ELSE [ok |-> FALSE, m |-> m]

\* read_stdin, one line: sent as a command, passed over, or the end of
\* read_stdin with an error.
MainReadStdin ==
    /\ main.reader = "running"
    /\ stdin # <<>>
    /\ stdin' = Tail(stdin)
    /\ LET r == read_stdin_line(Head(stdin))
           m == [main EXCEPT !.read = Append(@, Head(stdin))]
           sent == main_send(m, r.message)
           failed == [m EXCEPT !.reader = "closing", !.reader_result = "err"]
       IN  main' = CASE r.res = "skip" -> m
                     [] r.res = "fail" -> failed
                     [] r.res = "send" -> IF sent.ok THEN sent.m ELSE failed
    /\ UNCHANGED mainFrame

\* End of input: read_stdin returns Ok.
MainReadStdinEof ==
    /\ main.reader = "running"
    /\ stdin = <<>>
    /\ main' = [main EXCEPT !.reader = "closing", !.reader_result = "ok"]
    /\ UNCHANGED <<stdin, mainFrame>>

\* The thread of read_stdin ends: let _ = sender_.send(Message::StdinClosed).
MainStdinClosed ==
    /\ main.reader = "closing"
    /\ main' = [main_send(main, StdinClosed).m EXCEPT !.reader = "done"]
    /\ UNCHANGED <<stdin, mainFrame>>

\* process_messages, one message.
MainMessage ==
    /\ main.loop = "running"
    /\ main.messages # <<>>
    /\ LET message == Head(main.messages)
           m == [main EXCEPT !.messages = Tail(@), !.received = Append(@, message)]
       IN  main' =
             CASE message.msg = "Command" /\ message.command.cmd = "Input" ->
                    \* input.write_all(..).unwrap(): a panic once the read end is closed
                    IF proc.pipe_rx = "open"
                    THEN [m EXCEPT !.pipe = @ \o message.command.payload]
                    ELSE [m EXCEPT !.loop = "panicked", !.messages = <<>>]
               [] message.msg = "Command" /\ message.command.cmd = "GetView" ->
                    [m EXCEPT !.views = @ + 1]
               [] message.msg = "Command" /\ message.command.cmd = "Resize" ->
                    [m EXCEPT !.vt = [@ EXCEPT
                        !.fed = Append(@, "\\x1b[8;" \o ToString(message.command.rows) \o ";"
                                             \o ToString(message.command.cols) \o "t"),
                        !.cols = message.command.cols,
                        !.rows = message.command.rows]]
               [] message.msg = "Output" -> [m EXCEPT !.vt = vt_feed_str(@, message.data)]
               [] message.msg = "StdinClosed" ->
                    [m EXCEPT !.input = "closed", !.loop = "done", !.messages = <<>>]
               [] message.msg = "ChildExited" ->
                    [m EXCEPT !.stdin_fd = "closed", !.loop = "done", !.messages = <<>>]
    /\ UNCHANGED <<stdin, mainFrame>>

(***************************************************************************)
(* The child and its driver: exec in the child (pty.rs 141-151, main.rs    *)
(* 90-103), the loop that moves bytes (do_drive_child, handle_pty) and the *)
(* supervisor around it (drive_child, handle_process).                     *)
(***************************************************************************)
lifeFrame == <<now, session, hub, clients, sub, calls, attach, parseVars, adapterVars, stdioVars, inputVars>>

\* exec(command) in the child.  execvp returns only when it fails, and
\* `execvp(..)?` then returns the error to the caller of exec; the line
\* _exit(1) comes after it.
exec(c, outcome) ==
    IF outcome = "ok"
    THEN [c EXCEPT !.pc = "running", !.exec = "ok"]
    ELSE [c EXCEPT !.pc = "host", !.exec = "failed"]

ChildExec ==
    /\ child.pc = "exec"
    /\ \E outcome \in {"ok", "failed"} : child' = exec(child, outcome)
    /\ UNCHANGED <<lifeFrame, main, proc>>

\* spawn: `exec(command)?` hands the error to the caller of spawn, in the
\* child process; the host's main returns it and the child exits that way.
ChildReturns ==
    /\ child.pc = "host"
    /\ child' = [child EXCEPT !.pc = "exited", !.exit_by = "return"]
    /\ UNCHANGED <<lifeFrame, main, proc>>

\* The command writes a chunk of output to its terminal.
ChildOutput ==
    /\ child.pc = "running"
    /\ child.out < MaxOutputs
    /\ child' = [child EXCEPT !.out = @ + 1, !.pty = @ + 1]
    /\ UNCHANGED <<lifeFrame, main, proc>>

\* The command ends by itself.
ChildExits ==
    /\ child.pc = "running"
    /\ child' = [child EXCEPT !.pc = "exited", !.exit_by = "self"]
    /\ UNCHANGED <<lifeFrame, main, proc>>

\* SIGHUP ends the child (default disposition).
ChildHup ==
    /\ child.pc \in {"exec", "host", "running"}
    /\ child.hup
    /\ child' = [child EXCEPT !.pc = "exited", !.exit_by = "signal"]
    /\ UNCHANGED <<lifeFrame, main, proc>>

\* The loop returns: its files and channel ends are dropped with it.
loop_return(p, result) ==
    [p EXCEPT !.pc = "hup", !.loop_result = result, !.pipe_rx = "closed", !.output_tx = "dropped"]

\* handle_pty, MASTER readable: a chunk read and sent as Message::Output;
\* the send fails once process_messages has returned.
ProcOutput ==
    /\ proc.variant = "main" /\ proc.pc = "loop"
    /\ child.pty > 0
    /\ child' = [child EXCEPT !.pty = @ - 1]
    /\ LET sent == main_send(main, MessageOutput(TEXT))
       IN  IF sent.ok
           THEN main' = sent.m /\ proc' = [proc EXCEPT !.sent = @ + 1]
           ELSE main' = main /\ proc' = loop_return(proc, "err")
    /\ UNCHANGED lifeFrame

\* handle_pty, INPUT readable: the bytes of the pipe join the pending input.
ProcInput ==
    /\ proc.variant = "main" /\ proc.pc = "loop"
    /\ main.pipe # ""
    /\ main' = [main EXCEPT !.pipe = ""]
    /\ proc' = [proc EXCEPT !.input = @ \o main.pipe]
    /\ UNCHANGED <<lifeFrame, child>>

\* handle_pty, MASTER writable: the pending input written to the child.
ProcWrite ==
    /\ proc.variant = "main" /\ proc.pc = "loop"
    /\ proc.input # ""
    /\ child.pc \in {"exec", "host", "running"}
    /\ child' = [child EXCEPT !.stdin = @ \o proc.input]
    /\ proc' = [proc EXCEPT !.input = ""]
    /\ UNCHANGED <<lifeFrame, main>>

\* handle_pty, INPUT at its end (process_messages dropped the write end):
\* what is left in the pipe is read, then the read of 0 bytes returns Ok.
ProcInputClosed ==
    /\ proc.variant = "main" /\ proc.pc = "loop"
    /\ main.input = "closed"
    /\ main' = [main EXCEPT !.pipe = ""]
    /\ proc' = loop_return([proc EXCEPT !.input = @ \o main.pipe], "ok")
    /\ UNCHANGED <<lifeFrame, child>>

\* The master is at its end (the child is gone and its output is read):
\* nbio::read yields Some(0) and the loop returns Ok.
DriverEof ==
    /\ proc.variant \in {"pty", "main"} /\ proc.pc = "loop"
    /\ child.pc \in {"exited", "reaped"}
    /\ child.pty = 0
    /\ proc' = loop_return(proc, "ok")
    /\ UNCHANGED <<lifeFrame, main, child>>

\* do_drive_child, master readable: output_tx.send(..).await?; the send
\* fails once the hub has dropped the receiver.
DriveOutput ==
    /\ proc.variant = "pty" /\ proc.pc = "loop"
    /\ child.pty > 0
    /\ child' = [child EXCEPT !.pty = @ - 1]
    /\ proc' = IF hub = "running" THEN [proc EXCEPT !.sent = @ + 1] ELSE loop_return(proc, "err")
    /\ UNCHANGED <<lifeFrame, main>>

\* do_drive_child: input_rx.recv() yields None, the hub has dropped input_tx.
DriveInputClosed ==
    /\ proc.variant = "pty" /\ proc.pc = "loop"
    /\ hub = "stopped"
    /\ pty_input = <<>>
    /\ proc' = loop_return(proc, "ok")
    /\ UNCHANGED <<lifeFrame, main, child>>

\* The supervisor: libc::kill(child, SIGHUP).
DriverKill ==
    /\ proc.pc = "hup"
    /\ child' = [child EXCEPT !.hup = TRUE]
    /\ proc' = [proc EXCEPT !.pc = "wait"]
    /\ UNCHANGED <<lifeFrame, main>>

\* waitpid polls once and returns whether or not the child has ended.
DriverWait_nohang ==
    /\ proc.pc = "wait"
    /\ child' = IF child.pc = "exited" THEN [child EXCEPT !.pc = "reaped"] ELSE child
    /\ proc' = [proc EXCEPT !.pc = "reaped"]
    /\ UNCHANGED <<lifeFrame, main>>

\* The supervisor: waitpid(child, None) returns once the child has ended,
\* and reaps it.
DriverWait ==
    /\ proc.pc = "wait"
    /\ child.pc = "exited"
    /\ child' = [child EXCEPT !.pc = "reaped"]
    /\ proc' = [proc EXCEPT !.pc = "reaped"]
    /\ UNCHANGED <<lifeFrame, main>>

\* drive_child returns the result of the loop.
DriveDone ==
    /\ proc.variant = "pty" /\ proc.pc = "reaped"
    /\ proc' = [proc EXCEPT !.pc = "done", !.result = proc.loop_result]
    /\ UNCHANGED <<lifeFrame, main, child>>

\* handle_process returns the result of the loop; its thread then sends
\* ChildExited and ends with that result.
ProcDone ==
    /\ proc.variant = "main" /\ proc.pc = "reaped"
    /\ main' = main_send(main, ChildExited).m
    /\ proc' = [proc EXCEPT !.pc = "done", !.result = proc.loop_result]
    /\ UNCHANGED <<lifeFrame, child>>

\* handle_parent: after process_messages, handle.join() and the thread's
\* result as the result of main; a panic of process_messages ends the
\* process at once.
MainExit ==
    /\ proc.variant = "main" /\ proc.exit = "none"
    /\ \/ /\ main.loop = "done" /\ proc.pc = "done"
          /\ proc' = [proc EXCEPT !.exit = IF proc.result = "ok" THEN "success" ELSE "failure"]
       \/ /\ main.loop = "panicked"
          /\ proc' = [proc EXCEPT !.exit = "panic"]
    /\ UNCHANGED <<lifeFrame, main, child>>

\* The hub finds the channel of child output closed and returns.
HubOutputClosed ==
    /\ proc.variant = "pty"
    /\ proc.output_tx = "dropped"
    /\ HubStop

\* The hub returns because its command source closed.
HubSourceClosed ==
    /\ proc.variant = "pty"
    /\ proc.output_tx = "open"
    /\ HubStop

(***************************************************************************)
(* The driver loop byte by byte (pty.rs 69-138, main.rs 189-269).          *)
(***************************************************************************)
ioFrame == <<now, session, hub, clients, sub, calls, attach, parseVars, stdioVars, inputVars,
             main, lifeVars, ws>>

io_return(d, result) == [d EXCEPT !.pc = "done", !.result = result]

\* The pending input is cut down to its first bytes, not to its last.
io_shrink_head(d) ==
    LET left == Len(d.buf)
    IN  [d EXCEPT !.pc = "select",
                  !.input = IF left = 0 THEN <<>> ELSE SubSeq(@, 1, left)]

\* After the write loop: what was written leaves the pending input.
io_shrink(d) ==
    LET left == Len(d.buf)
    IN  [d EXCEPT !.pc = "select",
                  !.input = IF left = 0 THEN <<>> ELSE Drop(@, Len(@) - left)]

\* The child goes away: the slave side closes.  What it wrote can still be
\* read; a write to the master fails from now on, with EIO or with EPIPE.
IoChildGone ==
    /\ io.pc \in {"select", "read", "write"}
    /\ io.peer = "open"
    /\ \E errno \in {"EIO", "EPIPE"} : io' = [io EXCEPT !.peer = errno]
    /\ UNCHANGED ioFrame

\* handle_pty: poll fails with Interrupted, and the loop continues.
IoPollInterrupted ==
    /\ io.variant = "main" /\ io.pc = "select"
    /\ io' = [io EXCEPT !.call = "poll", !.os = Failed("EINTR")]
    /\ UNCHANGED ioFrame

\* input_rx.recv() yields Some(data) (pty.rs), the pipe is read (main.rs):
\* the bytes join the pending input.
IoInput ==
    /\ io.pc = "select"
    /\ io.msgs # <<>>
    /\ io' = [io EXCEPT !.msgs = Tail(@),
                        !.input = @ \o Head(io.msgs),
                        !.received = @ \o Head(io.msgs)]
    /\ UNCHANGED ioFrame

\* The master is writable and input is pending: the write loop starts on
\* the whole of the pending input.
IoWritable ==
    /\ io.pc = "select"
    /\ io.input # <<>>
    /\ io' = [io EXCEPT !.pc = "write", !.buf = io.input]
    /\ UNCHANGED ioFrame

WriteOutcomes(d) ==
    IF d.peer # "open" THEN {Failed(d.peer)}
    ELSE {Transferred(n) : n \in 1..Len(d.buf)} \cup {Failed("EAGAIN"), Failed("EINTR")}

\* One nbio::write in the write loop of do_drive_child.
io_write_pty(d, os) ==
    LET r == nbio_write(os)
        called == [d EXCEPT !.call = "write", !.os = os, !.ret = r]
    IN  IF ~r.ok THEN io_return(called, "err")
        ELSE IF ~r.v.some THEN io_shrink(called)
        ELSE IF r.v.v = 0 THEN io_return(called, "ok")
        ELSE LET rest == [called EXCEPT !.buf = Drop(@, r.v.v),
                                        !.written = @ \o SubSeq(d.buf, 1, r.v.v)]
             IN  IF rest.buf = <<>> THEN io_shrink(rest) ELSE rest

\* One nbio::write in the write loop of handle_pty:
\* while let Some(n) = nbio::write(..)? { buf = &buf[n..]; if empty break }.
io_write_main(d, os) ==
    LET r == nbio_write(os)
        called == [d EXCEPT !.call = "write", !.os = os, !.ret = r]
    IN  IF ~r.ok THEN io_return(called, "err")
        ELSE IF ~r.v.some THEN io_shrink(called)
        ELSE LET rest == [called EXCEPT !.buf = Drop(@, r.v.v),
                                        !.written = @ \o SubSeq(d.buf, 1, r.v.v)]
             IN  IF rest.buf = <<>> THEN io_shrink(rest) ELSE rest

IoWrite ==
    /\ io.pc = "write"
    /\ \E os \in WriteOutcomes(io) :
          io' = IF io.variant = "pty" THEN io_write_pty(io, os) ELSE io_write_main(io, os)
    /\ UNCHANGED ioFrame

\* The master is readable: the read loop starts.
IoReadable ==
    /\ io.pc = "select"
    /\ io.master # <<>> \/ io.peer # "open"
    /\ io' = [io EXCEPT !.pc = "read"]
    /\ UNCHANGED ioFrame

ReadOutcomes(d) ==
    IF d.master # <<>> THEN {Transferred(Len(Head(d.master))), Failed("EINTR")}
    ELSE IF d.peer # "open" THEN {Failed("EIO"), Transferred(0)}
    ELSE {Failed("EAGAIN"), Failed("EINTR")}

\* One nbio::read in the read loop.  do_drive_child sends the bytes of the
\* chunk on output_tx; handle_pty sends Message::Output with the chunk
\* decoded by String::from_utf8_lossy.
io_read(d, os) ==
    LET r == nbio_read(os)
        called == [d EXCEPT !.call = "read", !.os = os, !.ret = r]
    IN  IF ~r.ok THEN io_return(called, "err")
        ELSE IF ~r.v.some THEN [called EXCEPT !.pc = "select"]
        ELSE IF r.v.v = 0 THEN io_return(called, "ok")
        ELSE LET chunk == Head(d.master)
             IN  [called EXCEPT
                     !.master = Tail(@),
                     !.read = Append(@, chunk),
                     !.sent = Append(@, IF d.variant = "main" THEN from_utf8_lossy(chunk)
                                        ELSE chunk)]

IoRead ==
    /\ io.pc = "read"
    /\ \E os \in ReadOutcomes(io) : io' = io_read(io, os)
    /\ UNCHANGED ioFrame

Next ==
    \/ Tick
    \/ HubOutput(0..1)
    \/ HubResize(0..1, ResizeSizes)
    \/ HubGetView
    \/ HubClient
    \/ HubStop
    \/ \E s \in DOMAIN sub : StreamRequest(s)
    \/ \E s \in DOMAIN sub : StreamTimeout(s)
    \/ \E s \in DOMAIN sub : StreamPoll(s)

NextFanout ==
    \/ HubOutput({0})
    \/ HubResize({0}, FanoutResizeSizes)
    \/ HubGetView
    \/ HubClient
    \/ HubStop
    \/ \E s \in DOMAIN sub : StreamRequest(s)
    \/ \E s \in DOMAIN sub : StreamTimeout(s)
    \/ \E s \in DOMAIN sub : StreamPoll(s)

NextParse == ParseLine

NextKeys ==
    \/ ParseKey
    \/ ApiParseKey

\* The threads of the host stop with the process; the child lives on.
NextChild ==
    \/ ChildExec
    \/ ChildReturns
    \/ ChildOutput
    \/ ChildExits
    \/ ChildHup

NextSupervisor ==
    \/ DriverEof
    \/ DriverKill
    \/ DriverWait

NextMainThreads ==
    \/ MainReadStdin
    \/ MainReadStdinEof
    \/ MainStdinClosed
    \/ MainMessage
    \/ ProcOutput
    \/ ProcInput
    \/ ProcWrite
    \/ ProcInputClosed
    \/ ProcDone
    \/ MainExit

NextPtyTasks ==
    \/ DriveOutput
    \/ DriveInputClosed
    \/ DriveDone
    \/ HubOutputClosed
    \/ HubSourceClosed

Supervisor == proc.exit = "none" /\ NextSupervisor

MainThreads == proc.variant = "main" /\ proc.exit = "none" /\ NextMainThreads

NextMainLife ==
    \/ NextChild
    \/ Supervisor
    \/ MainThreads

NextLife ==
    \/ NextMainLife
    \/ NextPtyTasks

NextInput ==
    \/ CommandArrives({LineKeys, LineInput})
    \/ HubCommand({0})
    \/ HubSendInput
    \/ HubOutputOf({0}, ModeData)
    \/ DriverInput

NextMainStdin ==
    \/ MainReadStdin
    \/ MainReadStdinEof
    \/ MainStdinClosed
    \/ MainMessage

NextStdin ==
    \/ ReadStdin
    \/ ReadStdinEof
    \/ StartLine
    \/ StartSend
    \/ StartEnd
    \/ HubCommand({0})
    \/ HubSendInput
    \/ HubCommandsClosed
    \/ HubStop
    \/ DriverInput

NextStream ==
    \/ HubOutputOf({0}, {TEXT})
    \/ HubClient
    \/ HubStop
    \/ \E s \in DOMAIN sub : StreamRequest(s)
    \/ \E s \in DOMAIN sub : StreamTimeout(s)
    \/ \E s \in DOMAIN sub : StreamPoll(s)

NextWs ==
    \/ HubOutputOf({0}, {TEXT})
    \/ HubResize({0}, FanoutResizeSizes)
    \/ HubGetView
    \/ HubClient
    \/ HubStop
    \/ \E s \in DOMAIN sub : StreamRequest(s)
    \/ \E s \in DOMAIN sub : StreamTimeout(s)
    \/ \E s \in DOMAIN sub : StreamPoll(s)
    \/ \E s \in DOMAIN sub : WsStreamError(s)
    \/ \E s \in DOMAIN sub : WsForward(s)
    \/ \E s \in DOMAIN sub : WsClose(s)
    \/ \E s \in DOMAIN sub : WsSendFail(s)

\* The hub with all its arms, the command source, the PTY driver's input
\* side and a requester of a stream; the clock advances between the two
\* readings of an output.
NextTasks ==
    \/ HubOutputOf(0..1, {TEXT})
    \/ CommandArrives({LineInput, LineResize, LineGetView})
    \/ HubCommand({0})
    \/ HubSendInput
    \/ DriverInput
    \/ HubClient
    \/ \E s \in DOMAIN sub : StreamRequest(s)

NextIo ==
    \/ IoChildGone
    \/ IoPollInterrupted
    \/ IoInput
    \/ IoWritable
    \/ IoWrite
    \/ IoReadable
    \/ IoRead

\* Two subscribers behind a hub that broadcasts faster than they poll.
NextWsLag ==
    \/ HubOutputOf({0}, {TEXT})
    \/ HubClient
    \/ \E s \in DOMAIN sub : StreamRequest(s)
    \/ \E s \in DOMAIN sub : StreamPoll(s)
    \/ \E s \in DOMAIN sub : WsForward(s)
    \/ \E s \in DOMAIN sub : WsSendFail(s)

\* The hub and the driver of pty.rs joined by their two byte channels, the
\* child writing and input commands arriving.
NextChannels ==
    \/ CommandArrives({LineInput})
    \/ HubCommand({0})
    \/ HubSendInput
    \/ HubTakeOutput
    \/ DriverInput
    \/ DriverRead
    \/ DriverReadNone
    \/ DriverSend

Spec == Init /\ [][Next]_vars

SpecFanout == InitFanout /\ [][NextFanout]_vars

SpecParse == InitParse /\ [][NextParse]_vars

SpecKeys == InitKeys /\ [][NextKeys]_vars

SpecLife == InitLife /\ [][NextLife]_vars

\* Every thread of the host that can run does run; the child goes through
\* exec and ends on SIGHUP.  The child is not bound to write or to end by
\* itself.
FairMainLife ==
    /\ WF_vars(ChildExec) /\ WF_vars(ChildReturns) /\ WF_vars(ChildHup)
    /\ WF_vars(Supervisor)
    /\ WF_vars(MainThreads)

SpecMainLife == InitMainLife /\ [][NextMainLife]_vars /\ FairMainLife

SpecStdin == InitStdin /\ [][NextStdin]_vars

SpecInput == Init /\ [][NextInput]_vars

SpecMainStdin == InitStdin /\ [][NextMainStdin]_vars

SpecStream == InitFanout /\ [][NextStream]_vars

SpecWs == InitWs /\ [][NextWs]_vars

\* A handler that can take a step does take it: the stream is polled, the
\* item forwarded, the close sent.  The peer may stay or go.
FairWs ==
    \A s \in Subscribers :
        WF_vars(StreamPoll(s)) /\ WF_vars(WsForward(s)) /\ WF_vars(WsClose(s))

SpecWsFair == InitWsEnd /\ [][NextWs]_vars /\ FairWs

SpecMainSize == InitMainSize /\ [][NextMainLife]_vars

SpecTasks == Init /\ [][NextTasks]_vars

\* The driver task of pty.rs takes the arm of its select that is ready.
\* The hub is not bound to return.
FairPtyLife ==
    WF_vars(DriveOutput) /\ WF_vars(DriveInputClosed) /\ WF_vars(DriveDone)

SpecLifeFair == InitLife /\ [][NextLife]_vars /\ FairMainLife /\ FairPtyLife

SpecIo == InitIo /\ [][NextIo]_vars

\* The loop takes a branch that is ready and goes on with the system call
\* it is at.
FairIo == WF_vars(IoWritable) /\ WF_vars(IoWrite) /\ WF_vars(IoReadable) /\ WF_vars(IoRead)

SpecIoFair == InitIo /\ [][NextIo]_vars /\ FairIo

SpecWsLag == InitWsLag /\ [][NextWsLag]_vars

SpecChannels == Init /\ [][NextChannels]_vars

(***************************************************************************)
(* Properties.                                                             *)
(***************************************************************************)
Log == session.broadcast_tx

Got(s) == sub[s].got

Attached(s) == sub[s].pc \in {"streaming", "ended"}

NeverLagged(s) == \A i \in 1..Len(Got(s)) : Got(s)[i].ok

Timed(ev) == ev.type \in {"Output", "Resize"}

\* The event a Session call broadcasts, up to its time.
Matches(call, ev) ==
    CASE call.op = "output" -> ev.type = "Output" /\ ev.data = call.data
      [] call.op = "resize" ->
            ev.type = "Resize" /\ ev.cols = call.cols /\ ev.rows = call.rows
      [] call.op = "snapshot" -> ev.type = "Snapshot"
      [] OTHER -> FALSE

\* Every Session call of the hub has broadcast one event, in call order.
OneEventPerCall ==
    /\ Len(Log) = Len(calls)
    /\ \A k \in 1..Len(calls) : Matches(calls[k], Log[k])

\* The Init event Session.subscribe() makes in the state the hub was in when
\* it accepted subscriber s.
InitFor(s) ==
    LET S == attach[s].session
    IN  EvInit(S.stream_time + (attach[s].now - S.last_event_time),
               S.vt.cols, S.vt.rows, S.pid, S.vt.fed, SelectSeq(S.vt.fed, IsText))

OutputData(ch) ==
    LET outs == SelectSeq(ch, LAMBDA e : e.type = "Output")
    IN  [i \in 1..Len(outs) |-> outs[i].data]

\* C1: the first item of every subscriber stream is the Init event that
\* Session.subscribe() made for that subscriber; it is delivered once, and
\* no Output, Resize or Snapshot event (nor an error) comes before it.
C1_InitFirstOnce ==
    \A s \in DOMAIN sub :
        LET g == Got(s)
        IN  g # <<>> =>
              /\ Attached(s)
              /\ g[1].ok
              /\ g[1].ev = InitFor(s)
              /\ g[1].ev.type = "Init"
              /\ \A i \in 2..Len(g) : g[i].ev.type # "Init"

\* The subscriber attached after an event at a later tick, and has received
\* its Init (with a time past 0) and then an event.
C1_Witness ==
    \E s \in DOMAIN sub :
        /\ Len(Got(s)) >= 2
        /\ Got(s)[1].ev.type = "Init"
        /\ Got(s)[1].ev.time > 0
        /\ Got(s)[1].ev.seq # <<>>
        /\ Got(s)[2].ev.type \in {"Output", "Resize", "Snapshot"}

\* C2: a subscriber that never lagged has received, after its Init, exactly
\* the events broadcast after its subscribe(), each once and in sequence:
\* its i-th item after Init is the i-th event sent after it subscribed, the
\* event of the i-th Session call after it.
C2_ExactDelivery ==
    \A s \in DOMAIN sub :
        (Attached(s) /\ NeverLagged(s)) =>
            \A i \in 2..Len(Got(s)) :
                LET k == attach[s].at + i - 1
                IN  /\ k <= Len(Log)
                    /\ k <= Len(calls)
                    /\ Got(s)[i].idx = k
                    /\ Got(s)[i].ev = Log[k]
                    /\ Matches(calls[k], Log[k])

\* The subscriber attached after an event had been broadcast, and has
\* received the two events broadcast since.
C2_Witness ==
    \E s \in DOMAIN sub :
        /\ Attached(s)
        /\ NeverLagged(s)
        /\ attach[s].at >= 1
        /\ Len(Got(s)) >= 3

\* C3: every subscriber receives events in the order of the Session calls
\* that produced them, and two subscribers that both received two events
\* received them in the same relative order.
C3_HubOrder ==
    /\ OneEventPerCall
    /\ \A s \in DOMAIN sub :
          \A i, j \in 1..Len(Got(s)) :
              (i < j /\ Got(s)[i].idx > 0 /\ Got(s)[j].idx > 0) =>
                  /\ Got(s)[i].idx < Got(s)[j].idx
                  /\ Got(s)[j].idx <= Len(Log)
                  /\ Got(s)[i].ev = Log[Got(s)[i].idx]
                  /\ Got(s)[j].ev = Log[Got(s)[j].idx]
    /\ \A s, t \in DOMAIN sub :
          \A i, j \in 1..Len(Got(s)) :
              (i < j /\ Got(s)[i].idx > 0 /\ Got(s)[j].idx > 0) =>
                  \A k \in 1..Len(Got(t)) :
                      Got(t)[k].idx = Got(s)[i].idx =>
                          \A l \in 1..Len(Got(t)) :
                              Got(t)[l].idx = Got(s)[j].idx => k < l

\* Two subscribers have both received the same two events, one of them a
\* Snapshot.
C3_Witness ==
    \E s, t \in DOMAIN sub :
        /\ s # t
        /\ \E i, j \in 1..Len(Got(s)) : \E k, l \in 1..Len(Got(t)) :
              /\ i < j
              /\ Got(s)[i].idx > 0
              /\ Got(s)[i].idx = Got(t)[k].idx
              /\ Got(s)[j].idx = Got(t)[l].idx
              /\ Got(s)[j].ev.type = "Snapshot"

\* C4: the times of the Output and Resize events one subscriber receives
\* never decrease.
C4_TimesNonDecreasing ==
    \A s \in DOMAIN sub :
        \A i, j \in 1..Len(Got(s)) :
            (i < j /\ Timed(Got(s)[i].ev) /\ Timed(Got(s)[j].ev)) =>
                Got(s)[i].ev.time <= Got(s)[j].ev.time

\* A subscriber has received an Output and a Resize, with a Snapshot between
\* them, the later one at a later time.
C4_Witness ==
    \E s \in DOMAIN sub :
        \E i, j \in 1..Len(Got(s)) :
            /\ i + 1 < j
            /\ Got(s)[i].ev.type = "Output"
            /\ Got(s)[j].ev.type = "Resize"
            /\ Got(s)[i].ev.time < Got(s)[j].ev.time

\* C5: a Snapshot event a subscriber receives carries the screen of a VT
\* that has consumed the data of every Output broadcast before it, in
\* order: so of every Output the subscriber received before the Snapshot.
C5_SnapshotAfterFeed ==
    \A s \in DOMAIN sub :
        \A j \in 1..Len(Got(s)) :
            Got(s)[j].ev.type = "Snapshot" =>
                LET k == Got(s)[j].idx
                    fed == OutputData(SubSeq(Log, 1, k - 1))
                IN  /\ Got(s)[j].ev.seq = fed
                    /\ Got(s)[j].ev.text = SelectSeq(fed, IsText)
                    /\ \A i \in 1..(j - 1) :
                          Got(s)[i].ev.type = "Output" =>
                              \E n \in 1..Len(Got(s)[j].ev.seq) :
                                  Got(s)[j].ev.seq[n] = Got(s)[i].ev.data

\* A subscriber has received an Output and, after it, a Snapshot whose screen
\* also holds an Output from before the subscriber attached.
C5_Witness ==
    \E s \in DOMAIN sub :
        \E i, j \in 1..Len(Got(s)) :
            /\ i < j
            /\ Got(s)[i].ev.type = "Output"
            /\ Got(s)[j].ev.type = "Snapshot"
            /\ Len(Got(s)[j].ev.seq) >= 2
            /\ attach[s].at >= 1

\* C6: each poll of a stream depends on that subscriber's own position
\* alone.  A subscriber more than Capacity events behind gets the Lagged
\* error from its next receive; any other subscriber, whoever else lags and
\* whenever it attached, gets its Init first and then the next event in
\* order, without error.
C6_LagIsolated ==
    [][\A s \in DOMAIN sub :
          (sub[s].pc = "streaming" /\ Len(sub'[s].got) = Len(sub[s].got) + 1) =>
              LET item == sub'[s].got[Len(sub'[s].got)]
                  st == sub[s].stream
              IN  IF st.init_pending
                  THEN item.ok /\ item.ev = st.init
                  ELSE IF Len(Log) - st.broadcast_rx > Capacity
                  THEN ~item.ok /\ item.ev.type = "Lagged"
                  ELSE /\ item.ok
                       /\ st.broadcast_rx < Len(Log)
                       /\ item.ev = Log[st.broadcast_rx + 1]
                       /\ item.idx = st.broadcast_rx + 1]_vars

\* One subscriber has got the Lagged error; another attached after the
\* overflow and has received its Init and an event broadcast after that.
C6_Witness ==
    \E s, t \in DOMAIN sub :
        /\ s # t
        /\ \E i \in 1..Len(Got(s)) : ~Got(s)[i].ok /\ Got(s)[i].ev.type = "Lagged"
        /\ attach[t].at > attach[s].at + Capacity
        /\ NeverLagged(t)
        /\ Len(Got(t)) >= 2
        /\ Got(t)[1].ev.type = "Init"
        /\ Got(t)[2].idx = attach[t].at + 1

\* The last Resize among the first k events, 0 if there is none.
LastResize(k) ==
    LET R == {j \in 1..k : j <= Len(Log) /\ Log[j].type = "Resize"}
    IN  IF R = {} THEN 0 ELSE CHOOSE j \in R : \A m \in R : m <= j

C8_InitSizeIsSnapshotSize ==
    [](\A s \in DOMAIN sub :
           Attached(s) =>
               \A k \in (attach[s].at + 1)..Len(Log) :
                   (/\ Log[k].type = "Snapshot"
                    /\ LastResize(k) <= attach[s].at) =>
                       /\ Log[k].cols = sub[s].stream.init.cols
                       /\ Log[k].rows = sub[s].stream.init.rows)

\* A subscriber attached after a resize to a new size has received its Init,
\* an XTWINOPS Output and then a Snapshot.
C8_Witness ==
    \E s \in DOMAIN sub :
        /\ Len(Got(s)) = 3
        /\ Got(s)[1].ev.type = "Init"
        /\ <<Got(s)[1].ev.cols, Got(s)[1].ev.rows>> \notin InitSizes
        /\ Got(s)[2].ev.type = "Output"
        /\ Got(s)[2].ev.data = XTWINOPS
        /\ Got(s)[3].ev.type = "Snapshot"

HasType(name) == line.t = "obj" /\ line.f.type = JStr(name)

StringKeys ==
    /\ line.f.keys.t = "arr"
    /\ \A i \in 1..Len(line.f.keys.v) : line.f.keys.v[i].t = "str"

Size(value) == value.t = "num" /\ value.v >= 0

\* C10 (amended): parsing one JSON line maps its type field to a command:
\* input yields Input with a single Standard sequence equal to the payload
\* verbatim; sendKeys yields Input with one sequence per key, in the given
\* order; resize yields Resize(cols, rows) with the given values; getView
\* yields the GetView command; every other type value, snapshot among them,
\* and a missing type, yields an error.  The payload is a string, the keys
\* an array of strings, cols and rows integers that a usize holds.
C10_TypeToCommand ==
    parsed # NoResult =>
        /\ HasType("input") /\ line.f.payload.t = "str" =>
              parsed = Ok(Input(<<[kind |-> "Standard", seq |-> line.f.payload.v]>>))
        /\ HasType("sendKeys") /\ StringKeys =>
              /\ parsed.ok
              /\ parsed.v.cmd = "Input"
              /\ Len(parsed.v.seqs) = Len(line.f.keys.v)
              /\ \A i \in 1..Len(line.f.keys.v) :
                    parsed.v.seqs[i] = parse_key(line.f.keys.v[i].v)
        /\ HasType("resize") /\ Size(line.f.cols) /\ Size(line.f.rows) =>
              parsed = Ok(Resize(line.f.cols.v, line.f.rows.v))
        /\ HasType("getView") => parsed = Ok(GetView)
        /\ (\A name \in {"input", "sendKeys", "resize", "getView"} : ~HasType(name)) =>
              ~parsed.ok

\* Three keys of three kinds have been parsed, in their order.
C10_Witness ==
    /\ HasType("sendKeys")
    /\ line.f.keys = JArr(<<JStr("C-c"), JStr("A-x"), JStr("^Z"), JStr("Up")>>)
    /\ parsed = Ok(Input(<<standard_key("\\x03"), standard_key("\\x1bx"),
                           standard_key("\\x1a"), cursor_key("\\x1b[A", "\\x1bOA")>>))

\* C10 as stated: snapshot yields the Snapshot command, and every type other
\* than input, sendKeys, resize and snapshot yields an error.
C10_SnapshotType ==
    parsed # NoResult =>
        /\ HasType("snapshot") => parsed = Ok([cmd |-> "Snapshot"])
        /\ (\A name \in {"input", "sendKeys", "resize", "snapshot"} : ~HasType(name)) =>
              ~parsed.ok
(***************************************************************************)
(* The stdio API.                                                          *)
(***************************************************************************)
\* C11: a line that fails to parse produces no command and no state change,
\* and the reader continues, so that every later line is still read: the
\* reader of main.rs is never past its loop, with lines left on standard
\* input, right after a line that it did not turn into a command.
C11_ReaderContinues ==
    /\ main.reader # "running"
    /\ main.read # <<>>
    /\ read_stdin_line(main.read[Len(main.read)]).res # "send"
    => stdin = <<>>

\* The same of api.rs: the step of start that takes a line which does not
\* parse leaves start receiving, with nothing sent and the hub, the Session
\* and the channels as they were.
ApiSkipsBadLine ==
    [][(api.pc = "recv" /\ api'.lines # api.lines /\ ~from_str(Head(input_ch)).ok) =>
          /\ api'.pc = "recv"
          /\ api'.command = NoCommand
          /\ UNCHANGED <<now, session, hub, command_ch, delivered, inputVars, stdin, reader>>]_vars

\* After a line that did not parse, start has sent the command of a later line.
ApiSkipsBadLine_Witness ==
    /\ Len(api.lines) = 2
    /\ ~from_str(api.lines[1]).ok
    /\ from_str(api.lines[2]).ok
    /\ delivered = <<from_str(api.lines[2]).v>>

\* The commands a sequence of lines parses to, in order.
RECURSIVE Commands(_)
Commands(lines) ==
    IF lines = <<>> THEN <<>>
    ELSE LET result == from_str(Head(lines))
         IN  (IF result.ok THEN <<result.v>> ELSE <<>>) \o Commands(Tail(lines))

\* The command start holds while it waits for room in the command channel.
Waiting == IF api.pc = "send" THEN <<api.command>> ELSE <<>>

\* C12: every line that parses results in exactly one command delivered to
\* the hub, in the order the lines were read; when the command channel is
\* full the reader waits, and drops or reorders nothing: while the hub runs,
\* the commands of the lines handled so far are the commands delivered,
\* followed by those in the channel, followed by the one being sent.
C12_OneCommandPerLine ==
    /\ Len(command_ch) <= CommandCap
    /\ hub # "stopped" => Commands(api.lines) = delivered \o command_ch \o Waiting
    /\ hub # "stopped" /\ api.pc = "ok" /\ command_ch = <<>> =>
          /\ stdin = <<>>
          /\ delivered = Commands(api.lines)

\* start waits with a command in hand on a full channel, after a delivery.
C12_Witness ==
    /\ api.pc = "send"
    /\ Len(command_ch) = CommandCap
    /\ delivered # <<>>
    /\ hub # "stopped"
(***************************************************************************)
(* Input to the child.                                                     *)
(***************************************************************************)
RECURSIVE Concat(_)
Concat(strings) == IF strings = <<>> THEN "" ELSE Head(strings) \o Concat(Tail(strings))

\* Cursor-key application mode after the first n chunks of output: on when
\* the last DECCKM sequence among them sets it.
RECURSIVE AppModeAfter(_)
AppModeAfter(n) ==
    CASE n = 0 -> FALSE
      [] session.vt.fed[n] = DECCKM_SET -> TRUE
      [] session.vt.fed[n] = DECCKM_RST -> FALSE
      [] OTHER -> AppModeAfter(n - 1)

\* C13: the bytes the hub sends to the PTY input channel for an Input
\* command are the concatenation, in order, of the bytes of its sequences:
\* those of a Standard sequence in either mode, and of a Cursor(normal, app)
\* sequence normal when cursor-key application mode is off at the moment the
\* command is handled and app when it is on; and these bytes, command after
\* command, are what goes through the channel to the driver.
C13_InputBytes ==
    /\ \A k \in 1..Len(input_log) :
          LET seqs == input_log[k].seqs
              app == AppModeAfter(input_log[k].fed)
          IN  input_log[k].bytes =
                Concat([i \in 1..Len(seqs) |->
                          IF seqs[i].kind = "Standard" THEN seqs[i].seq
                          ELSE IF app THEN seqs[i].seq2 ELSE seqs[i].seq1])
    /\ Concat([k \in 1..Len(input_log) |-> input_log[k].bytes])
          = driver.input \o Concat(pty_input) \o hub_bytes

\* The same keys have gone to the driver once in each mode.
C13_Witness ==
    /\ Len(input_log) >= 2
    /\ input_log[1].seqs = input_log[2].seqs
    /\ input_log[1].bytes = "\\x1b[D\\x0d\\x1b[F"
    /\ input_log[2].bytes = "\\x1bOD\\x0d\\x1bOF"
    /\ driver.input = input_log[1].bytes \o input_log[2].bytes

(***************************************************************************)
(* Key names (spec 4.4).  What a name is expected to encode to is built    *)
(* here from the rules of xterm: the final letter or the number of the     *)
(* key, and the modifier number n.                                         *)
(***************************************************************************)
\* Keys that end in a letter, and keys of the form CSI number ~.
FinalLetter ==
    [k \in {"Left", "Right", "Up", "Down", "Home", "End", "F1", "F2", "F3", "F4"} |->
        CASE k = "Left" -> "D" [] k = "Right" -> "C" [] k = "Up" -> "A" [] k = "Down" -> "B"
          [] k = "Home" -> "H" [] k = "End" -> "F"
          [] k = "F1" -> "P" [] k = "F2" -> "Q" [] k = "F3" -> "R" [] k = "F4" -> "S"]

KeyNumber ==
    [k \in {"PageUp", "PageDown", "F5", "F6", "F7", "F8", "F9", "F10", "F11", "F12"} |->
        CASE k = "PageUp" -> "5" [] k = "PageDown" -> "6"
          [] k = "F5" -> "15" [] k = "F6" -> "17" [] k = "F7" -> "18" [] k = "F8" -> "19"
          [] k = "F9" -> "20" [] k = "F10" -> "21" [] k = "F11" -> "23" [] k = "F12" -> "24"]

\* n for a set of modifiers: 1 + (S: 1, A: 2, C: 4).
ModifierNumber(mods) ==
    CASE mods = {"C-"} -> "5"
      [] mods = {"S-"} -> "2"
      [] mods = {"A-"} -> "3"
      [] mods = {"C-", "S-"} -> "6"
      [] mods = {"C-", "A-"} -> "7"
      [] mods = {"S-", "A-"} -> "4"
      [] mods = {"C-", "S-", "A-"} -> "8"

CursorKeys == {"Left", "Right", "Up", "Down", "Home", "End"}

PlainKey(k) ==
    IF k \in CursorKeys
    THEN [kind |-> "Cursor", seq1 |-> "\\x1b[" \o FinalLetter[k], seq2 |-> "\\x1bO" \o FinalLetter[k]]
    ELSE IF k \in DOMAIN FinalLetter
    THEN [kind |-> "Standard", seq |-> "\\x1bO" \o FinalLetter[k]]
    ELSE [kind |-> "Standard", seq |-> "\\x1b[" \o KeyNumber[k] \o "~"]

ModifiedKey(mods, k) ==
    IF k \in DOMAIN FinalLetter
    THEN [kind |-> "Standard", seq |-> "\\x1b[1;" \o ModifierNumber(mods) \o FinalLetter[k]]
    ELSE [kind |-> "Standard", seq |-> "\\x1b[" \o KeyNumber[k] \o ";" \o ModifierNumber(mods) \o "~"]

ControlTable ==
    [k \in ControlNames |->
        CASE k \in {"C-@", "C-Space", "^@"} -> "\\x00"
          [] k \in {"C-[", "Escape", "^["} -> "\\x1b"
          [] k \in {"C-\\", "^\\"} -> "\\x1c"
          [] k \in {"C-]", "^]"} -> "\\x1d"
          [] k \in {"C-^", "C-/"} -> "\\x1e"
          [] k \in {"C--", "C-_"} -> "\\x1f"
          [] k = "Tab" -> "\\x09"
          [] k = "Enter" -> "\\x0d"
          [] k = "Space" -> " "]

C15_ArrowModifiers ==
    \A k \in Arrows, o \in Orderings :
        key.name = Prefix(o) \o k /\ key.seq # NoSeq =>
            key.seq = [kind |-> "Standard",
                       seq |-> "\\x1b[1;" \o ModifierNumber(Range(o)) \o FinalLetter[k]]

C15_Witness ==
    /\ key.name = "S-A-C-Up"
    /\ key.seq = [kind |-> "Standard", seq |-> "\\x1b[1;8A"]

\* C16: for Home, End, PageUp, PageDown and F1..F12, a name with two or
\* three modifier prefixes, in any order, yields the modified sequence with
\* the combined modifier number, and is not passed through as text.
C16_CombinedModifiers ==
    \A k \in Navigation \cup FunctionKeys, o \in Orderings :
        Len(o) >= 2 /\ key.name = Prefix(o) \o k /\ key.seq # NoSeq =>
            key.seq = ModifiedKey(Range(o), k)

\* The byte n as the text of a control character.
ControlByte(n) == "\\x" \o HexDigits[(n \div 16) + 1] \o HexDigits[(n % 16) + 1]

\* C17: for every letter, C-x, C-X, ^x and ^X encode to the same single
\* control byte, the position of the letter in the alphabet (0x01..0x1a);
\* no subtraction wraps around.
C17_ControlLetters ==
    \A i \in 1..26 :
        /\ key.name \in {"C-" \o LowerCase[i], "C-" \o UpperCase[i],
                          "^" \o LowerCase[i], "^" \o UpperCase[i]}
        /\ key.seq # NoSeq
        => key.seq = [kind |-> "Standard", seq |-> ControlByte(i)]

C17_Witness ==
    /\ key.name = "^Z"
    /\ key.seq = [kind |-> "Standard", seq |-> "\\x1a"]

C19_ExecFailureExits ==
    child.exec = "failed" => child.pc \in {"exited", "reaped"} /\ child.exit_by = "_exit"

\* The source of the hub's work has ended: read_stdin has returned, or the
\* child is gone and its output is read to the end.
SourceEnded ==
    \/ main.reader # "running"
    \/ child.pc \in {"exited", "reaped"} /\ child.pty = 0

Finished ==
    /\ main.loop = "done"
    /\ proc.pc = "done"
    /\ child.pc = "reaped"
    /\ proc.exit = "success"

\* C20: once the child's output has ended or the command source has
\* closed, process_messages stops, the threads end, the child is reaped and
\* the process finishes with success.
C20_FinishesWithSuccess == SourceEnded ~> Finished

(***************************************************************************)
(* session::stream as seen by the requester.                               *)
(***************************************************************************)
\* C21: session::stream gives a stream that starts with Init, or an error.
\* A request made when the client channel is closed ends in an error; a
\* requester still waiting when the hub drops its Client gets an error; a
\* requester in error (the timeout among the causes) has received no event
\* and never receives one; a stream is entered only from waiting, with an
\* Init as its first item.
C21_StreamOrError ==
    [][\A s \in DOMAIN sub :
          /\ sub[s].pc = "idle" /\ hub = "stopped" /\ sub'[s] # sub[s] => sub'[s].pc = "error"
          /\ sub[s].pc = "waiting" /\ hub = "running" /\ hub' = "stopped" => sub'[s].pc = "error"
          /\ sub[s].pc = "error" => sub'[s] = sub[s]
          /\ sub'[s].pc = "error" => sub'[s].got = <<>> /\ sub'[s].stream = NoStream
          /\ sub'[s].pc = "streaming" /\ sub[s].pc # "streaming" =>
                /\ sub[s].pc = "waiting"
                /\ sub'[s].stream.init.type = "Init"
                /\ sub'[s].stream.init_pending
                /\ sub'[s].got = <<>>]_vars

C21_Witness ==
    /\ sub["A"].pc = "error"
    /\ sub["A"].got = <<>>
    /\ hub = "running"
    /\ session.broadcast_tx # <<>>
    /\ sub["B"].pc = "streaming"
    /\ sub["B"].got # <<>>

(***************************************************************************)
(* The WebSocket endpoints (spec 4.8).                                     *)
(***************************************************************************)
\* The events a connection has taken from its stream, and the text
\* messages it has sent.
Taken(s) == [i \in 1..ws[s].n |-> sub[s].got[i].ev]

Texts(s) == SelectSeq(ws[s].sent, LAMBDA message : message.msg = "Text")

KindOf(event) ==
    CASE event.type = "Init" -> "init"
      [] event.type = "Output" -> "output"
      [] event.type = "Resize" -> "resize"
      [] event.type = "Snapshot" -> "snapshot"

Chosen(s) == {k \in Kinds : ws[s].sub[k]}

\* What the live preview shows for an event.
AlisFrame(event) ==
    CASE event.type = "Init" ->
            [time |-> event.time, cols |-> event.cols, rows |-> event.rows, init |-> event.seq]
      [] event.type = "Output" -> <<event.time, "o", event.data>>
      [] event.type = "Resize" ->
            <<event.time, "r", ToString(event.cols) \o "x" \o ToString(event.rows)>>

\* C22: on the event-stream endpoint the messages sent are, in order, those
\* of the events taken whose kind is in the subscriber's subset, one for
\* one; on the ALiS endpoint they are those of the Init, Output and Resize
\* events taken, and no Snapshot.
C22_FilterBySubset ==
    \A s \in DOMAIN ws :
        LET events == SelectSeq(Taken(s), LAMBDA e : KindOf(e) \in Chosen(s))
            frames == SelectSeq(Taken(s), LAMBDA e : e.type # "Snapshot")
        IN  /\ ws[s].endpoint = "events" =>
                 /\ Len(Texts(s)) = Len(events)
                 /\ \A i \in 1..Len(events) :
                       /\ Texts(s)[i].value.type = KindOf(events[i])
                       /\ Texts(s)[i].value = to_json(events[i])
            /\ ws[s].endpoint = "alis" =>
                 /\ Len(Texts(s)) = Len(frames)
                 /\ \A i \in 1..Len(frames) : Texts(s)[i].value = AlisFrame(frames[i])

\* A subscriber to output and snapshot has taken an Init, an Output and a
\* Snapshot, and sent two messages.
C22_Witness ==
    /\ ws["A"].endpoint = "events"
    /\ Chosen("A") = {"output", "snapshot"}
    /\ {e.type : e \in Range(Taken("A"))} = {"Init", "Output", "Snapshot"}
    /\ Len(Texts("A")) = 2

\* The close message ends what a connection sends, and is sent only once
\* the Session is gone; a connection that has closed has taken its Init and
\* every event broadcast since its subscribe().
CloseIsLast ==
    \A s \in DOMAIN ws :
        LET sent == ws[s].sent
            pending == SubSeq(session.broadcast_tx, attach[s].at + 1, Len(session.broadcast_tx))
        IN  /\ \A i \in 1..Len(sent) :
                  sent[i].msg = "Close" =>
                      /\ i = Len(sent)
                      /\ sent[i].code = "NORMAL" /\ sent[i].reason = "ended"
                      /\ hub = "stopped"
                      /\ ws[s].state = "closed"
            /\ ws[s].state = "closed" =>
                  /\ sent # <<>> /\ sent[Len(sent)].msg = "Close"
                  /\ Taken(s) = <<sub[s].stream.init>> \o pending

\* C23: when the Session ends, a connected subscriber that does not fail
\* first is sent what its stream still holds and then, last, a normal close
\* with the reason "ended"; nothing follows the close.
C23_EndedClose ==
    /\ []CloseIsLast
    /\ \A s \in Subscribers :
          (hub = "stopped" /\ sub[s].pc = "streaming" /\ ws[s].state = "open")
              ~> (ws[s].state \in {"closed", "failed"})

\* The Session ended after two events broadcast since the subscribe(); the
\* connection has sent its messages and the close.
C23_Witness ==
    /\ ws["A"].state = "closed"
    /\ ws["A"].endpoint = "alis"
    /\ Len(ws["A"].sent) = 3
    /\ Len(session.broadcast_tx) - attach["A"].at >= 2

(***************************************************************************)
(* Sizes.                                                                  *)
(***************************************************************************)
\* C24: the VT is created with the window size given to the PTY at fork
\* (the value of --size): as long as no resize has been handled and no
\* output fed, the size of the VT is the window size of the PTY.
C24_VtSizeIsPtySize ==
    (\A i \in 1..Len(main.received) : main.received[i].msg = "StdinClosed")
        => <<main.vt.cols, main.vt.rows>> = child.winsize

(***************************************************************************)
(* The clock of the Session.                                               *)
(***************************************************************************)
\* C25: over output, resize, snapshot and subscribe calls, and the passing
\* of time between them, stream_time never decreases and elapsed_time,
\* observed before and after each step, never decreases.
C25_TimeNeverDecreases ==
    [][/\ session'.stream_time >= session.stream_time
       /\ elapsed_time(session', now') >= elapsed_time(session, now)]_vars

\* After an earlier call, an output or resize has read the clock twice with
\* time passing between the two readings.
C25_Witness ==
    /\ Len(calls) >= 2
    /\ calls[Len(calls)].op \in {"output", "resize"}
    /\ session.last_event_time - session.start_time > session.stream_time

\* The time of the last Output or Resize event broadcast before the
\* subscribe() of s, 0 if there was none.
LastTimeBefore(s) ==
    LET before == {k \in 1..attach[s].at : Timed(Log[k])}
    IN  IF before = {} THEN 0
        ELSE Log[CHOOSE k \in before : \A l \in before : l <= k].time

\* C26: the time of a subscriber's Init is at least the time of the last
\* Output or Resize event broadcast before its subscribe() (0 if none) and
\* at most the time of every Output or Resize event it receives afterwards.
C26_InitTimeBetween ==
    [](\A s \in DOMAIN sub :
           Attached(s) =>
               /\ sub[s].stream.init.time >= LastTimeBefore(s)
               /\ \A i \in 1..Len(Got(s)) :
                     Timed(Got(s)[i].ev) => sub[s].stream.init.time <= Got(s)[i].ev.time)

\* The subscriber attached after an event whose two readings of the clock
\* differ, and has received an Output or Resize event since.
C26_Witness ==
    \E s \in DOMAIN sub :
        /\ Attached(s)
        /\ attach[s].at >= 1
        /\ Timed(Log[attach[s].at])
        /\ attach[s].session.last_event_time - attach[s].session.start_time
              > attach[s].session.stream_time
        /\ \E i \in 1..Len(Got(s)) : Timed(Got(s)[i].ev)

(***************************************************************************)
(* Who changes what.                                                       *)
(***************************************************************************)
\* The step is one call of the given Session method by the hub.
HubCalls(ops) ==
    /\ Len(calls') = Len(calls) + 1
    /\ SubSeq(calls', 1, Len(calls)) = calls
    /\ calls'[Len(calls')].op \in ops

\* The step sends exactly one event, of the given types, on the broadcast.
SendsOne(types) ==
    /\ Len(Log') = Len(Log) + 1
    /\ SubSeq(Log', 1, Len(Log)) = Log
    /\ Log'[Len(Log')].type \in types

\* C27: every change of the VT, of stream_time or of last_event_time is a
\* hub step that calls Session.output or Session.resize; each such call
\* sends exactly one event on the broadcast, an Output or a Resize
\* respectively; and nothing is sent on the broadcast outside a Session call
\* of the hub.
C27_OnlyHubCallsChange ==
    [][/\ (\/ session'.vt # session.vt
           \/ session'.stream_time # session.stream_time
           \/ session'.last_event_time # session.last_event_time)
          => HubCalls({"output", "resize"})
       /\ HubCalls({"output"}) => SendsOne({"Output"})
       /\ HubCalls({"resize"}) => SendsOne({"Resize"})
       /\ Log' # Log => HubCalls({"output", "resize", "snapshot"})]_vars

\* The hub has called output, resize and snapshot, an output at a later
\* tick, while the driver holds input bytes and a subscriber is attached.
C27_Witness ==
    /\ \E i, j, k \in 1..Len(calls) :
          calls[i].op = "output" /\ calls[j].op = "resize" /\ calls[k].op = "snapshot"
    /\ session.stream_time > 0
    /\ driver.input # ""
    /\ \E s \in DOMAIN sub : Attached(s)

\* The step is a subscribe(): a waiting requester gets its Subscription.
Subscribes ==
    \E s \in DOMAIN sub : sub[s].pc = "waiting" /\ sub'[s].pc = "streaming"

\* No Output or Resize event lies in the broadcast log from position i to j.
Quiet(i, j) == \A k \in i..j : ~Timed(Log[k])

SameView(e, f) ==
    e.cols = f.cols /\ e.rows = f.rows /\ e.seq = f.seq /\ e.text = f.text

\* C28: snapshot and subscribe leave the VT, stream_time, last_event_time
\* and pid as they are; snapshot sends exactly one Snapshot event and
\* subscribe sends none; so two Snapshots, or an Init and a Snapshot, with no
\* output or resize between them carry the same cols, rows, seq and text.
C28_ReadOnlyCalls ==
    /\ [][/\ HubCalls({"snapshot"}) =>
                /\ SendsOne({"Snapshot"})
                /\ session' = [session EXCEPT !.broadcast_tx = Log']
          /\ Subscribes => session' = session /\ calls' = calls]_vars
    /\ [](/\ \A i, j \in 1..Len(Log) :
                (i < j /\ Log[i].type = "Snapshot" /\ Log[j].type = "Snapshot"
                       /\ Quiet(i, j)) => SameView(Log[i], Log[j])
          /\ \A s \in DOMAIN sub : \A k \in 1..Len(Log) :
                (Attached(s) /\ Log[k].type = "Snapshot"
                    /\ Quiet(k, attach[s].at) /\ Quiet(attach[s].at + 1, k))
                  => SameView(sub[s].stream.init, Log[k]))

\* After an output, a snapshot, a subscribe() and a
\* second snapshot have followed with no output or resize between them.
C28_Witness ==
    \E i, j \in 1..Len(Log) : \E s \in DOMAIN sub :
        /\ i < j
        /\ Log[i].type = "Snapshot" /\ Log[j].type = "Snapshot"
        /\ Quiet(i, j)
        /\ Attached(s) /\ attach[s].at \in i..(j - 1)
        /\ Log[i].seq # <<>>

\* The step is the hub taking a command of the given kinds from the
\* command channel.
Handles(cmds) ==
    /\ Len(delivered') = Len(delivered) + 1
    /\ delivered'[Len(delivered')].cmd \in cmds

MasterEof == child.pc \in {"exited", "reaped"} /\ child.pty = 0

\* The input source of the loop is closed: input_tx dropped with the hub
\* (pty.rs), the write end of the pipe dropped by process_messages (main.rs).
InputSourceClosed ==
    IF proc.variant = "main" THEN main.input = "closed" ELSE hub = "stopped"

\* C30: the driver loop returns only when the master is at EOF or the input
\* source is closed, and once either holds the loop eventually returns Ok,
\* whatever it holds at that time (buffered input, output to forward).
C30_LoopReturnsOk ==
    /\ [][(proc.pc = "loop" /\ proc'.pc # "loop") => (MasterEof \/ InputSourceClosed)]_vars
    /\ ((MasterEof \/ InputSourceClosed) ~> proc.loop_result = "ok")

(***************************************************************************)
(* The driver loop byte by byte.                                           *)
(***************************************************************************)
\* C31: the bytes written to the PTY master are a prefix of the input
\* messages received, concatenated in arrival order; outside a write phase
\* the pending input is exactly the part not yet written, and inside one the
\* slice still to write is.
C31_WrittenIsPrefix ==
    /\ Len(io.written) <= Len(io.received)
    /\ SubSeq(io.received, 1, Len(io.written)) = io.written
    /\ io.pc \in {"select", "read"} => io.written \o io.input = io.received
    /\ io.pc = "write" => io.written \o io.buf = io.received

\* A write took one byte of the first message, the next would block, and
\* the second message has joined what is left.
C31_Witness ==
    /\ io.pc = "select"
    /\ io.written = <<"a">>
    /\ io.input = <<"b", "c">>
    /\ io.os = Failed("EAGAIN")

\* The step is one nbio::write of the write loop.
WriteStep == io.pc = "write" /\ io'.peer = io.peer /\ io' # io

\* C32: a write that reports Some(0) while input is pending makes the
\* driver return Ok, and the write loop always comes to an end.
C32_ZeroWriteEndsLoop ==
    /\ [][(WriteStep /\ io'.ret = Ok(Some(0))) => (io'.pc = "done" /\ io'.result = "ok")]_vars
    /\ (io.pc = "write" ~> io.pc # "write")

\* The data of the Output events made from what the driver sent: the
\* Message::Output of main.rs carries the text; the bytes sent on output_tx
\* by pty.rs are decoded by the hub.
OutputTexts ==
    [i \in 1..Len(io.sent) |->
        IF io.variant = "main" THEN io.sent[i] ELSE from_utf8_lossy(io.sent[i])]

\* The lossy decoding of the chunks the child writes here.
LossyText(chunk) ==
    CASE chunk = <<"h">> -> <<"h">>
      [] chunk = <<"C3">> -> <<"U+FFFD">>
      [] chunk = <<"A9">> -> <<"U+FFFD">>
      [] chunk = <<"h", "C3", "A9">> -> <<"h", "U+00E9">>

C34_NbioResults ==
    io.call \in {"read", "write"} =>
        /\ io.os.errno = "none" => io.ret = Ok(Some(io.os.n))
        /\ io.os.errno = "EAGAIN" => io.ret = Ok(None)
        /\ io.os.errno = "EIO" => io.ret = Ok(Some(0))
        /\ io.os.errno \notin {"none", "EAGAIN", "EIO"} => io.ret = Err(io.os.errno)
        /\ io.ret = Ok(Some(0)) => io.os \in {Transferred(0), Failed("EIO")}
        /\ io.ret = Ok(None) => io.os = Failed("EAGAIN")

\* After a read that would have blocked, a write failed with EPIPE and
\* nbio::write gave that error.
C34_Witness ==
    /\ io.call = "write"
    /\ io.os = Failed("EPIPE")
    /\ io.ret = Err("EPIPE")
    /\ io.read # <<>>

\* C35: a write to the PTY master that fails with EPIPE is treated as the
\* end of the file: the driver loop returns Ok.
C35_EpipeIsEof ==
    [][(WriteStep /\ io'.call = "write" /\ io'.os = Failed("EPIPE"))
          => (io'.pc = "done" /\ io'.result = "ok")]_vars

\* A step in which poll, read or write fails with EINTR.
Interrupted ==
    /\ io' # io
    /\ io'.peer = io.peer
    /\ io'.os = Failed("EINTR")
    /\ \/ io.pc \in {"read", "write"}
       \/ io.pc = "select" /\ io'.call = "poll" /\ io.call # "poll"

\* C36: EINTR during poll, read or write is retried: the driver does not
\* return, and no data is lost.
C36_EintrIsRetried ==
    [][Interrupted =>
          /\ io'.pc # "done"
          /\ io'.msgs = io.msgs /\ io'.input = io.input /\ io'.written = io.written
          /\ io'.master = io.master /\ io'.read = io.read /\ io'.sent = io.sent]_vars

\* The next item of the adapter's stream is the lag error.
LagNext(s) ==
    /\ ws[s].state = "open"
    /\ ws[s].n < Len(sub[s].got)
    /\ ~sub[s].got[ws[s].n + 1].ok

\* The step changes nothing of the hub, the Session or the other subscribers.
OthersUntouched(s) ==
    /\ hub' = hub /\ session' = session /\ clients' = clients
    /\ \A t \in DOMAIN ws \ {s} : ws'[t] = ws[t] /\ sub'[t] = sub[t]

\* C37: when an adapter's stream yields a lag error or its send fails, the
\* adapter stops forwarding and its connection ends: the lag error is not
\* passed over whatever the subset, and nothing is sent after it; the hub
\* and the other subscribers are left as they are.
C37_LagEndsConnection ==
    [][\A s \in DOMAIN ws :
          /\ (LagNext(s) /\ ws'[s] # ws[s]) =>
                 ws'[s] = [ws[s] EXCEPT !.state = "failed"]
          /\ (ws[s].state = "open" /\ ws'[s].state = "failed") =>
                 ws'[s].sent = ws[s].sent /\ OthersUntouched(s)
          /\ ws[s].state = "failed" => ws'[s] = ws[s]
          /\ (sub'[s] # sub[s] /\ sub'[s].got # sub[s].got /\ ~sub'[s].got[Len(sub'[s].got)].ok) =>
                 OthersUntouched(s)]_vars

\* A's connection, with no kind chosen, has ended on the lag error; B's is
\* open and has been sent an output broadcast after A lagged.
C37_Witness ==
    /\ ws["A"].state = "failed"
    /\ Chosen("A") = {} /\ ws["A"].endpoint = "events"
    /\ ws["A"].n < Len(sub["A"].got) /\ ~sub["A"].got[ws["A"].n + 1].ok
    /\ ws["B"].state = "open"
    /\ ws["B"].endpoint = "events" /\ Chosen("B") = Kinds
    /\ \E i \in 1..Len(ws["B"].sent) : ws["B"].sent[i].value.type = "output"
    /\ hub = "running"

\* The driver waits in output_tx.send on a full output channel.
DriverBlocked == driver.pc = "send" /\ Len(pty_output) = OutputCap

\* The hub waits in the send of input bytes on a full input channel.
HubBlocked == hub = "sending" /\ Len(pty_input) = InputCap

C39_InputAtExitIsHarmless ==
    /\ main.loop # "panicked"
    /\ proc.exit # "panic"

\* process_messages has stopped on the message ChildExited.
StoppedOnChildExit ==
    /\ main.loop = "done"
    /\ main.received # <<>>
    /\ main.received[Len(main.received)] = ChildExited

\* C40: when the hub stops because the child exited, every chunk the
\* driver read and sent before the end of the file has been taken by the
\* hub and fed to the VT: ChildExited never overtakes queued child output.
C40_OutputBeforeExit ==
    StoppedOnChildExit =>
        /\ Len(SelectSeq(main.received, LAMBDA message : message.msg = "Output")) = proc.sent
        /\ Len(SelectSeq(main.vt.fed, LAMBDA data : data = TEXT)) = proc.sent

\* The hub took a chunk of child output and, right after it, ChildExited.
C40_Witness ==
    /\ StoppedOnChildExit
    /\ proc.sent >= 1
    /\ Len(main.received) >= 2
    /\ main.received[Len(main.received) - 1].msg = "Output"

====
